---- MODULE Spec2Model ----
(***************************************************************************)
(* Document ingestion pipeline of ClaudeDesk                               *)
(* (src/app/api/process-document/route.ts).                                *)
(*                                                                         *)
(* The model has three layers:                                             *)
(*   - the POST handler (orchestrator): trigger, fetch-and-mark, extract,  *)
(*     chunk, embed, mark completed, catch handler;                        *)
(*   - UltraHighPerformanceProcessor: batch groups, batches with retries,  *)
(*     one promise per chunk and attempt;                                  *)
(*   - SemanticChunker: the chunking strategies as operators on an         *)
(*     abstract text (a sequence of units, each a sequence of parts with   *)
(*     a token count and a character length).                              *)
(*                                                                         *)
(* A step of the model is one continuation of the handler between two      *)
(* suspension points (awaits on the database, the file store, the          *)
(* embedding API or a timer); microtask chains run inside one step.        *)
(***************************************************************************)
EXTENDS Naturals, Integers, Sequences, FiniteSets, Bags, TLC

(***************************************************************************)
(* Bounds of the model                                                     *)
(***************************************************************************)
NumRuns == 2
MaxChunks == 3
MaxBatchSize == 2
MaxParallel == 2
MaxFaults == 3

Runs == 1..NumRuns

(***************************************************************************)
(* Program constants                                                       *)
(***************************************************************************)
maxRetries == 3
BackoffBaseMs == 1000
BackoffCapMs == 5000

Min(a, b) == IF a < b THEN a ELSE b
Max(a, b) == IF a > b THEN a ELSE b

RECURSIVE Pow2(_)
Pow2(n) == IF n = 0 THEN 1 ELSE 2 * Pow2(n - 1)

(***************************************************************************)
(* The database: one documents row ("d1", owned by project "p1") and the   *)
(* document_chunks rows.  "d9" is an id no documents row has.              *)
(***************************************************************************)
Documents == {"d1"}
ProjectOf(d) == "p1"
NoId == "none"
DocumentIds == {"d1", "d9", NoId}
ProjectIds == {"p1", "p2", NoId}
StatusValues == {"pending", "processing", "completed", "failed"}

(***************************************************************************)
(* AdaptiveConfig                                                          *)
(***************************************************************************)
\* variant of getConfig: the medium tier reaches up to 5,000,000 characters
getConfigMediumBelow5M(textLength, contentType) ==
    IF textLength < 50000
    THEN [MAX_CHUNK_TOKENS |-> 400, OVERLAP_TOKENS |-> 80, BATCH_SIZE |-> 5,
          MAX_PARALLEL_BATCHES |-> 2, BATCH_DELAY_MS |-> 500,
          PROCESSING_STRATEGY |-> "ACCURACY_FIRST"]
    ELSE IF textLength < 5000000
    THEN [MAX_CHUNK_TOKENS |-> 350, OVERLAP_TOKENS |-> 60, BATCH_SIZE |-> 8,
          MAX_PARALLEL_BATCHES |-> 3, BATCH_DELAY_MS |-> 300,
          PROCESSING_STRATEGY |-> "BALANCED"]
    ELSE IF textLength < 2000000
    THEN [MAX_CHUNK_TOKENS |-> 300, OVERLAP_TOKENS |-> 50, BATCH_SIZE |-> 12,
          MAX_PARALLEL_BATCHES |-> 4, BATCH_DELAY_MS |-> 200,
          PROCESSING_STRATEGY |-> "SPEED_OPTIMIZED"]
    ELSE [MAX_CHUNK_TOKENS |-> 250, OVERLAP_TOKENS |-> 40, BATCH_SIZE |-> 15,
          MAX_PARALLEL_BATCHES |-> 5, BATCH_DELAY_MS |-> 150,
          PROCESSING_STRATEGY |-> "MAXIMUM_THROUGHPUT"]

\* AdaptiveConfig.getConfig: the tier of the text length (the content type
\* is not used)
getConfig(textLength, contentType) ==
    IF textLength < 50000
    THEN [MAX_CHUNK_TOKENS |-> 400, OVERLAP_TOKENS |-> 80, BATCH_SIZE |-> 5,
          MAX_PARALLEL_BATCHES |-> 2, BATCH_DELAY_MS |-> 500,
          PROCESSING_STRATEGY |-> "ACCURACY_FIRST"]
    ELSE IF textLength < 500000
    THEN [MAX_CHUNK_TOKENS |-> 350, OVERLAP_TOKENS |-> 60, BATCH_SIZE |-> 8,
          MAX_PARALLEL_BATCHES |-> 3, BATCH_DELAY_MS |-> 300,
          PROCESSING_STRATEGY |-> "BALANCED"]
    ELSE IF textLength < 2000000
    THEN [MAX_CHUNK_TOKENS |-> 300, OVERLAP_TOKENS |-> 50, BATCH_SIZE |-> 12,
          MAX_PARALLEL_BATCHES |-> 4, BATCH_DELAY_MS |-> 200,
          PROCESSING_STRATEGY |-> "SPEED_OPTIMIZED"]
    ELSE [MAX_CHUNK_TOKENS |-> 250, OVERLAP_TOKENS |-> 40, BATCH_SIZE |-> 15,
          MAX_PARALLEL_BATCHES |-> 5, BATCH_DELAY_MS |-> 150,
          PROCESSING_STRATEGY |-> "MAXIMUM_THROUGHPUT"]

ContentTypes == {"CODE", "NATURAL_LANGUAGE", "MIXED", "UNKNOWN"}

\* variant of analyzeContent: MIXED needs both ratios above 0.1
analyzeContentBothAboveFloor(codeScore, nlScore, totalChars) ==
    LET type == IF 10 * codeScore > 3 * totalChars /\ codeScore > nlScore * 2 THEN "CODE"
                ELSE IF 10 * nlScore > 2 * totalChars /\ nlScore > codeScore * 2
                THEN "NATURAL_LANGUAGE"
                ELSE IF 10 * codeScore > totalChars /\ 10 * nlScore > totalChars THEN "MIXED"
                ELSE "UNKNOWN"
        confidence ==
            CASE type = "CODE" ->
                   IF 950 * 3 * totalChars <= 10000 * codeScore THEN 950
                   ELSE (10000 * codeScore) \div (3 * totalChars)
              [] type = "NATURAL_LANGUAGE" ->
                   IF 950 * 2 * totalChars <= 10000 * nlScore THEN 950
                   ELSE (10000 * nlScore) \div (2 * totalChars)
              [] type = "MIXED" -> 700
              [] OTHER -> 300
    IN  [codeScore |-> codeScore, nlScore |-> nlScore, totalChars |-> totalChars,
         type |-> type, confidence |-> confidence]

\* ContentAnalyzer.analyzeContent, from the weighted match counts of the
\* sample and its length: codeRatio = codeScore / totalChars and
\* naturalLanguageRatio = nlScore / totalChars are compared as fractions;
\* confidence is in thousandths, rounded down
analyzeContent(codeScore, nlScore, totalChars) ==
    LET type == IF 10 * codeScore > 3 * totalChars /\ codeScore > nlScore * 2 THEN "CODE"
                ELSE IF 10 * nlScore > 2 * totalChars /\ nlScore > codeScore * 2
                THEN "NATURAL_LANGUAGE"
                ELSE IF 10 * codeScore > totalChars \/ 10 * nlScore > totalChars THEN "MIXED"
                ELSE "UNKNOWN"
        confidence ==
            CASE type = "CODE" ->
                   IF 950 * 3 * totalChars <= 10000 * codeScore THEN 950
                   ELSE (10000 * codeScore) \div (3 * totalChars)
              [] type = "NATURAL_LANGUAGE" ->
                   IF 950 * 2 * totalChars <= 10000 * nlScore THEN 950
                   ELSE (10000 * nlScore) \div (2 * totalChars)
              [] type = "MIXED" -> 700
              [] OTHER -> 300
    IN  [codeScore |-> codeScore, nlScore |-> nlScore, totalChars |-> totalChars,
         type |-> type, confidence |-> confidence]

\* no analysis made
NoAnalysis ==
    [codeScore |-> 0, nlScore |-> 0, totalChars |-> 0, type |-> "none", confidence |-> 0]

(***************************************************************************)
(* Abstract texts.                                                         *)
(*                                                                         *)
(* A text is a sequence of units separated by blank lines.  A unit is a    *)
(* sequence of parts (one sentence on one line each) and has a kind:       *)
(*   "decl"  one line that starts a declaration (matches functionRegex     *)
(*           and is a code line for identifyMixedSections),                *)
(*   "code"  lines that are code lines but no declarations,                *)
(*   "prose" lines that are not code lines.                                *)
(* A part has the token count the tokenizer gives it (tok) and its length  *)
(* in characters (len).  The token count of a join of parts is taken to    *)
(* be the sum of their counts, and the length of a join the sum of their   *)
(* lengths (separators count for nothing).  The empty sequence stands for  *)
(* a file whose text trims to the empty string.                            *)
(***************************************************************************)
MaxUnits == 2
MaxParts == 2

PartShapes ==
    { [tok |-> 3, len |-> 12], [tok |-> 10, len |-> 40],
      [tok |-> 150, len |-> 600], [tok |-> 450, len |-> 1800] }

UnitKinds == {"decl", "code", "prose"}

PartSeqs(n) == UNION {[1..m -> PartShapes] : m \in 1..n}

Units ==
    [kind : {"decl"}, parts : PartSeqs(1)] \cup
    [kind : {"code", "prose"}, parts : PartSeqs(MaxParts)]

Texts == UNION {[1..m -> Units] : m \in 0..MaxUnits}

RECURSIVE SumTok(_)
SumTok(content) ==
    IF content = <<>> THEN 0 ELSE Head(content).tok + SumTok(Tail(content))

RECURSIVE SumLen(_)
SumLen(content) ==
    IF content = <<>> THEN 0 ELSE Head(content).len + SumLen(Tail(content))

\* tokenizer.encode(text).length of a content (a sequence of part references)
getAccurateTokenCount(content) == SumTok(content)

\* the content of unit u of text t: its parts, each tagged with its origin
UnitContent(t, u) ==
    [s \in 1..Len(t[u].parts) |->
        [u |-> u, s |-> s, tok |-> t[u].parts[s].tok, len |-> t[u].parts[s].len]]

\* a text as a sequence of sections [kind, content]
Sections(t) == [u \in 1..Len(t) |-> [kind |-> t[u].kind, content |-> UnitContent(t, u)]]

RECURSIVE Flatten(_)
Flatten(ss) == IF ss = <<>> THEN <<>> ELSE Head(ss).content \o Flatten(Tail(ss))

\* variant of TrimIsEmpty: the empty-content check never fires
TrimIsNeverEmpty(t) == FALSE

\* text.length and text.trim() of the POST handler
TextLength(t) == SumLen(Flatten(Sections(t)))
TrimIsEmpty(t) == t = <<>>

(***************************************************************************)
(* SemanticChunker                                                         *)
(***************************************************************************)
Last(q) == q[Len(q)]
LastN(q, n) == SubSeq(q, Len(q) - n + 1, Len(q))

\* splitBySentences: the loop over sentences, from sentence i on
RECURSIVE splitBySentencesLoop(_, _, _, _, _, _)
splitBySentencesLoop(sentences, i, out, currentChunk, currentTokens, cfg) ==
    IF i > Len(sentences)
    THEN IF Len(currentChunk) > 0
         THEN Append(out, [content |-> currentChunk,
                           tokens |-> getAccurateTokenCount(currentChunk),
                           semanticBoundary |-> "SENTENCE"])
         ELSE out
    ELSE LET sentence == sentences[i]
             sentenceTokens == getAccurateTokenCount(<<sentence>>)
         IN  IF currentTokens + sentenceTokens > cfg.MAX_CHUNK_TOKENS /\ Len(currentChunk) > 0
             THEN LET overlapSentences == Min(2, Len(currentChunk))
                      kept == LastN(currentChunk, overlapSentences)
                  IN  splitBySentencesLoop(sentences, i + 1,
                          Append(out, [content |-> currentChunk,
                                       tokens |-> getAccurateTokenCount(currentChunk),
                                       semanticBoundary |-> "SENTENCE"]),
                          Append(kept, sentence),
                          getAccurateTokenCount(kept) + sentenceTokens, cfg)
             ELSE splitBySentencesLoop(sentences, i + 1, out,
                          Append(currentChunk, sentence),
                          currentTokens + sentenceTokens, cfg)

splitBySentences(content, cfg) == splitBySentencesLoop(content, 1, <<>>, <<>>, 0, cfg)

\* splitLargeCodeBlock: the loop over lines, from line i on
RECURSIVE splitLargeCodeBlockLoop(_, _, _, _, _, _)
splitLargeCodeBlockLoop(lines, i, out, currentChunk, currentTokens, cfg) ==
    IF i > Len(lines)
    THEN IF Len(currentChunk) > 0
         THEN Append(out, [content |-> currentChunk,
                           tokens |-> getAccurateTokenCount(currentChunk),
                           semanticBoundary |-> "CODE_LINES"])
         ELSE out
    ELSE LET line == lines[i]
             lineTokens == getAccurateTokenCount(<<line>>)
         IN  IF currentTokens + lineTokens > cfg.MAX_CHUNK_TOKENS /\ Len(currentChunk) > 0
             THEN splitLargeCodeBlockLoop(lines, i + 1,
                          Append(out, [content |-> currentChunk,
                                       tokens |-> getAccurateTokenCount(currentChunk),
                                       semanticBoundary |-> "CODE_LINES"]),
                          <<line>>, lineTokens, cfg)
             ELSE splitLargeCodeBlockLoop(lines, i + 1, out,
                          Append(currentChunk, line), currentTokens + lineTokens, cfg)

splitLargeCodeBlock(block, cfg) == splitLargeCodeBlockLoop(block.content, 1, <<>>, <<>>, 0, cfg)

\* createSemanticChunk: the contents of the units joined
createSemanticChunk(units, chunkType) ==
    [content |-> Flatten(units),
     tokens |-> getAccurateTokenCount(Flatten(units)),
     semanticBoundary |-> chunkType]

\* selectOverlapBlocks: blocks from the end of the chunk, 50 tokens assumed
\* for each (the blocks carry no tokens field), from block i downwards
RECURSIVE selectOverlapBlocksLoop(_, _, _, _, _)
selectOverlapBlocksLoop(currentChunk, i, overlapTokens, overlapBlocks, cfg) ==
    IF i >= 1 /\ overlapTokens < cfg.OVERLAP_TOKENS
    THEN selectOverlapBlocksLoop(currentChunk, i - 1, overlapTokens + 50,
                                 <<currentChunk[i]>> \o overlapBlocks, cfg)
    ELSE overlapBlocks

selectOverlapBlocks(currentChunk, cfg) ==
    selectOverlapBlocksLoop(currentChunk, Len(currentChunk), 0, <<>>, cfg)

\* createContextualOverlap: the result as a sequence (empty for null)
createContextualOverlap(currentChunk) ==
    IF Len(currentChunk) = 0 THEN <<>>
    ELSE LET lastUnit == Last(currentChunk)
         IN  IF SumLen(lastUnit.content) < 200 THEN <<lastUnit>>
             ELSE LET lastSentence == Last(lastUnit.content)
                  IN  IF lastSentence.len < 150
                      THEN <<[kind |-> "CONTEXT_BRIDGE", content |-> <<lastSentence>>]>>
                      ELSE <<>>

\* extractSemanticUnits: the sections split at blank lines, short ones skipped
extractSemanticUnits(secs) == SelectSeq(secs, LAMBDA sec : ~(SumLen(sec.content) < 20))

\* extractCodeBlocks: declarations, and the text between them when it is
\* longer than 50 characters; from section i on, frag being the text since
\* the last declaration
RECURSIVE extractCodeBlocksLoop(_, _, _, _)
extractCodeBlocksLoop(secs, i, blocks, frag) ==
    LET flushed == IF SumLen(frag) > 50
                   THEN Append(blocks, [kind |-> "CODE_FRAGMENT", content |-> frag])
                   ELSE blocks
    IN  IF i > Len(secs) THEN flushed
        ELSE IF secs[i].kind = "decl"
             THEN extractCodeBlocksLoop(secs, i + 1,
                      Append(flushed, [kind |-> "FUNCTION_OR_CLASS", content |-> secs[i].content]),
                      <<>>)
             ELSE extractCodeBlocksLoop(secs, i + 1, blocks, frag \o secs[i].content)

extractCodeBlocks(secs) ==
    LET blocks == extractCodeBlocksLoop(secs, 1, <<>>, <<>>)
    IN  IF Len(blocks) > 0 THEN blocks
        ELSE <<[kind |-> "SINGLE_BLOCK", content |-> Flatten(secs)]>>

\* chunkCode: the loop over code blocks, from block i on
RECURSIVE chunkCodeLoop(_, _, _, _, _, _)
chunkCodeLoop(codeBlocks, i, out, currentChunk, currentTokens, cfg) ==
    IF i > Len(codeBlocks)
    THEN IF Len(currentChunk) > 0
         THEN Append(out, createSemanticChunk(currentChunk, "CODE_BLOCK_GROUP"))
         ELSE out
    ELSE LET block == codeBlocks[i]
             blockTokens == getAccurateTokenCount(block.content)
         IN  IF blockTokens > cfg.MAX_CHUNK_TOKENS
             THEN chunkCodeLoop(codeBlocks, i + 1,
                      (IF Len(currentChunk) > 0
                       THEN Append(out, createSemanticChunk(currentChunk, "CODE_BLOCK_GROUP"))
                       ELSE out) \o splitLargeCodeBlock(block, cfg),
                      <<>>, 0, cfg)
             ELSE IF currentTokens + blockTokens > cfg.MAX_CHUNK_TOKENS /\ Len(currentChunk) > 0
             THEN LET overlapBlocks == selectOverlapBlocks(currentChunk, cfg)
                      next == Append(overlapBlocks, block)
                  IN  chunkCodeLoop(codeBlocks, i + 1,
                          Append(out, createSemanticChunk(currentChunk, "CODE_BLOCK_GROUP")),
                          next, getAccurateTokenCount(Flatten(next)), cfg)
             ELSE chunkCodeLoop(codeBlocks, i + 1, out,
                          Append(currentChunk, block), currentTokens + blockTokens, cfg)

chunkCode(secs, cfg) == chunkCodeLoop(extractCodeBlocks(secs), 1, <<>>, <<>>, 0, cfg)

\* chunkNaturalLanguage: the loop over semantic units, from unit i on
RECURSIVE chunkNaturalLanguageLoop(_, _, _, _, _, _)
chunkNaturalLanguageLoop(semanticUnits, i, out, currentChunk, currentTokens, cfg) ==
    IF i > Len(semanticUnits)
    THEN IF Len(currentChunk) > 0
         THEN Append(out, createSemanticChunk(currentChunk, "PARAGRAPH_GROUP"))
         ELSE out
    ELSE LET unit == semanticUnits[i]
             unitTokens == getAccurateTokenCount(unit.content)
         IN  IF unitTokens > cfg.MAX_CHUNK_TOKENS
             THEN chunkNaturalLanguageLoop(semanticUnits, i + 1,
                      (IF Len(currentChunk) > 0
                       THEN Append(out, createSemanticChunk(currentChunk, "PARAGRAPH_GROUP"))
                       ELSE out) \o splitBySentences(unit.content, cfg),
                      <<>>, 0, cfg)
             ELSE IF currentTokens + unitTokens > cfg.MAX_CHUNK_TOKENS /\ Len(currentChunk) > 0
             THEN LET next == Append(createContextualOverlap(currentChunk), unit)
                  IN  chunkNaturalLanguageLoop(semanticUnits, i + 1,
                          Append(out, createSemanticChunk(currentChunk, "PARAGRAPH_GROUP")),
                          next, getAccurateTokenCount(Flatten(next)), cfg)
             ELSE chunkNaturalLanguageLoop(semanticUnits, i + 1, out,
                          Append(currentChunk, unit), currentTokens + unitTokens, cfg)

chunkNaturalLanguage(secs, cfg) ==
    chunkNaturalLanguageLoop(extractSemanticUnits(secs), 1, <<>>, <<>>, 0, cfg)

\* identifyMixedSections: a unit of code lines is a CODE section of its own
\* (the blank line after it closes it), consecutive units of prose lines
\* form one TEXT section; from unit i on, cur being the open TEXT section
RECURSIVE identifyMixedSectionsLoop(_, _, _, _)
identifyMixedSectionsLoop(secs, i, out, cur) ==
    LET closed == IF Len(cur) > 0 THEN Append(out, [type |-> "TEXT", secs |-> cur]) ELSE out
    IN  IF i > Len(secs) THEN closed
        ELSE IF secs[i].kind \in {"decl", "code"}
             THEN identifyMixedSectionsLoop(secs, i + 1,
                      Append(closed, [type |-> "CODE", secs |-> <<secs[i]>>]), <<>>)
             ELSE identifyMixedSectionsLoop(secs, i + 1, out, Append(cur, secs[i]))

identifyMixedSections(secs) == identifyMixedSectionsLoop(secs, 1, <<>>, <<>>)

\* chunkMixed: each section chunked by its own strategy
RECURSIVE chunkMixedLoop(_, _, _, _)
chunkMixedLoop(sections, i, out, cfg) ==
    IF i > Len(sections) THEN out
    ELSE chunkMixedLoop(sections, i + 1,
             out \o (IF sections[i].type = "CODE"
                     THEN chunkCode(sections[i].secs, cfg)
                     ELSE chunkNaturalLanguage(sections[i].secs, cfg)),
             cfg)

chunkMixed(secs, cfg) == chunkMixedLoop(identifyMixedSections(secs), 1, <<>>, cfg)

\* chunkFallback: sentence-based chunking of the whole text
chunkFallback(secs, cfg) == splitBySentences(Flatten(secs), cfg)

chunkIntelligently(t, type, cfg) ==
    CASE type = "CODE" -> chunkCode(Sections(t), cfg)
      [] type = "NATURAL_LANGUAGE" -> chunkNaturalLanguage(Sections(t), cfg)
      [] type = "MIXED" -> chunkMixed(Sections(t), cfg)
      [] OTHER -> chunkFallback(Sections(t), cfg)

VARIABLES
    status,          \* documents.status, by document id
    rows,            \* bag of document_chunks rows
    pending,         \* runs whose trigger has not arrived yet
    pc,              \* position of each run of POST
    req,             \* body of the trigger: documentId, projectId
    startStatus,     \* documents.status when the trigger arrived (history)
    sel,             \* state of the documents select of the run
    upd,             \* state of the 'processing' update of the run
    docText,         \* text stored in the file of document d1
    docType,         \* classification the analyzer gives that text
    docMime,         \* declared MIME type of document d1
    chunks,          \* output of the chunker, per run
    config,          \* processing configuration, per run
    groupIndex,      \* processAllChunks: index of the current batch group
    processedCount,  \* processAllChunks: processedCount
    bat,             \* processBatchWithRetries: state of each batch
    cp,              \* processBatch: state of each chunk promise
    embedCalls,      \* number of embedding API calls issued, per run
    faults,          \* number of failures injected so far, per run
    err,             \* message of the error travelling to the catch of POST
    writes,          \* statuses the run has written to its documents row (history)
    resp,            \* response of the run
    frames,          \* chunkIntelligently: the loops in progress, innermost last
    textLength,      \* getConfig: the textLength argument, per call
    delays,          \* processAllChunks: the adaptive delays computed, per run
    analysis         \* analyzeContent: scores of the sample and the result, per run

procVars == <<chunks, config, groupIndex, processedCount, bat, cp, embedCalls, faults>>
vars == <<status, rows, pending, pc, req, startStatus, sel, upd, docText, docType,
          docMime, frames, textLength, delays, analysis,
          chunks, config, groupIndex, processedCount, bat, cp, embedCalls, faults,
          err, writes, resp>>

(***************************************************************************)
(* UltraHighPerformanceProcessor                                           *)
(***************************************************************************)
\* chunks.slice(startIdx, endIdx): the positions of the slice, in order
Slice(startIdx, endIdx) ==
    [k \in 1..(endIdx - startIdx) |-> startIdx + k - 1]

\* inner loop of processAllChunks: the batches of the group starting at i
BatchGroup(n, B, M, i) ==
    LET numB == Cardinality({j \in 0..(M - 1) : i + j * B < n})
    IN  [jj \in 1..numB |->
            LET startIdx == i + (jj - 1) * B
                endIdx == Min(startIdx + B, n)
            IN  Slice(startIdx, endIdx)]

\* outer loop of processAllChunks: all batch groups
BatchGroups(n, B, M) ==
    LET numG == Cardinality({g \in 0..n : g * B * M < n})
    IN  [gg \in 1..numG |-> BatchGroup(n, B, M, (gg - 1) * B * M)]

\* globalBatchIndex of batch batchIndex of group g
GlobalBatchIndex(g, batchIndex, M) == g * M + batchIndex

\* variant of GlobalIndex: the index within the batch
GlobalIndexWithinBatch(batchIndex, chunkIndex, B) == chunkIndex

\* globalIndex of chunk chunkIndex of batch batchIndex (the chunk_index written)
GlobalIndex(batchIndex, chunkIndex, B) == batchIndex * B + chunkIndex

\* variant of BackoffDelay: the exponent one too high
BackoffDelayFromAttempt(attempt) == Min(BackoffBaseMs * Pow2(attempt), BackoffCapMs)

\* exponential backoff after failed attempt number attempt
BackoffDelay(attempt) == Min(BackoffBaseMs * Pow2(attempt - 1), BackoffCapMs)

BatchIds == 0..(MaxChunks - 1)
ChunkIds == 0..(MaxChunks - 1)
Attempts == 1..maxRetries
PromiseIds == BatchIds \X ChunkIds \X Attempts

NoBatch == [attempt |-> 0, phase |-> "none", waits |-> <<>>, items |-> <<>>, result |-> 0]
NoPromises == [t \in PromiseIds |-> "none"]

\* global batch indexes of the batches of group g
BatchesOfGroup(n, B, M, g) ==
    {GlobalBatchIndex(g, j - 1, M) : j \in 1..Len(BatchGroups(n, B, M)[g + 1])}

\* processBatch, synchronous part: batch.map starts one promise per chunk of
\* the batch, and each promise issues its embedding call
StartPromises(cpr, b, a, items) ==
    [t \in PromiseIds |->
        IF t[1] = b /\ t[3] = a /\ t[2] < Len(items) THEN "embedding" ELSE cpr[t]]

\* processAllChunks, batchGroup.map: every batch of group g enters
\* processBatchWithRetries with attempt 1
StartGroupBat(batr, n, B, M, g) ==
    [b \in BatchIds |->
        IF b \in BatchesOfGroup(n, B, M, g)
        THEN [attempt |-> 1, phase |-> "running", waits |-> <<>>,
              items |-> BatchGroups(n, B, M)[g + 1][b - g * M + 1], result |-> 0]
        ELSE batr[b]]

StartGroupCp(cpr, n, B, M, g) ==
    [t \in PromiseIds |->
        IF /\ t[1] \in BatchesOfGroup(n, B, M, g)
           /\ t[3] = 1
           /\ t[2] < Len(BatchGroups(n, B, M)[g + 1][t[1] - g * M + 1])
        THEN "embedding" ELSE cpr[t]]

RECURSIVE SumOver(_, _)
SumOver(S, f) ==
    IF S = {} THEN 0
    ELSE LET x == CHOOSE y \in S : TRUE IN f[x] + SumOver(S \ {x}, f)

\* number of chunks in the batches of group g
GroupSize(n, B, M, g) ==
    SumOver(BatchesOfGroup(n, B, M, g),
            [b \in BatchIds |->
                IF b \in BatchesOfGroup(n, B, M, g)
                THEN Len(BatchGroups(n, B, M)[g + 1][b - g * M + 1]) ELSE 0])

N(r) == Len(chunks[r])
B(r) == config[r].BATCH_SIZE
M(r) == config[r].MAX_PARALLEL_BATCHES
NumGroups(r) == Len(BatchGroups(N(r), B(r), M(r)))

\* the attempt a of batch b is the one processBatchWithRetries is awaiting
Live(r, b, a) == bat[r][b].attempt = a /\ bat[r][b].phase = "running"

\* variant of processBatchWithRetriesCatch: no rethrow on the last attempt,
\* the loop ends and the method returns 0
processBatchWithRetriesFallsThrough(bt) ==
    IF bt.attempt = maxRetries
    THEN [bt EXCEPT !.phase = "ok", !.result = 0]
    ELSE [bt EXCEPT !.phase = "backoff", !.waits = Append(@, BackoffDelay(bt.attempt))]

\* variant of processBatchWithRetriesCatch: the rethrow one attempt early
processBatchWithRetriesGivesUpEarly(bt) ==
    IF bt.attempt = maxRetries - 1
    THEN [bt EXCEPT !.phase = "exhausted"]
    ELSE [bt EXCEPT !.phase = "backoff", !.waits = Append(@, BackoffDelay(bt.attempt))]

\* processBatchWithRetries, catch block: rethrow on the last attempt,
\* otherwise wait the backoff delay
processBatchWithRetriesCatch(bt) ==
    IF bt.attempt = maxRetries
    THEN [bt EXCEPT !.phase = "exhausted"]
    ELSE [bt EXCEPT !.phase = "backoff", !.waits = Append(@, BackoffDelay(bt.attempt))]

\* variant of AttemptFulfilled: fulfilled by the first chunk promise that is
AttemptFulfilledByAny(cpr, b, a, items) ==
    \E kk \in 0..(Len(items) - 1) : cpr[<<b, kk, a>>] = "done"

\* processBatch: await Promise.all(chunkPromises) of attempt a of batch b is
\* fulfilled when every chunk promise of the attempt is
AttemptFulfilled(cpr, b, a, items) ==
    \A kk \in 0..(Len(items) - 1) : cpr[<<b, kk, a>>] = "done"

\* processAllChunks: Promise.all(batchPromises) of the current group, given
\* the new states of the batches
GroupOutcome(r, nbat) ==
    LET group == BatchesOfGroup(N(r), B(r), M(r), groupIndex[r])
    IN  IF pc[r] # "embed" THEN "pending"
        ELSE IF \E b \in group : nbat[b].phase = "exhausted" THEN "rejected"
        ELSE IF \A b \in group : nbat[b].phase = "ok" THEN "fulfilled"
        ELSE "pending"

\* processAllChunks after Promise.all of the group settles.  Rejected: the
\* error is rethrown into the catch of POST.  Fulfilled: the results are
\* added to processedCount; then the adaptive delay before the next group,
\* or, after the last group, the return to POST, which issues the
\* 'completed' update.
AwaitGroup(r, nbat, message) ==
    LET outcome == GroupOutcome(r, nbat)
        group == BatchesOfGroup(N(r), B(r), M(r), groupIndex[r])
    IN  /\ pc' = CASE outcome = "rejected" -> [pc EXCEPT ![r] = "catch"]
                   [] outcome = "fulfilled" /\ groupIndex[r] < NumGroups(r) - 1 ->
                          [pc EXCEPT ![r] = "delay"]
                   [] outcome = "fulfilled" /\ ~(groupIndex[r] < NumGroups(r) - 1) ->
                          [pc EXCEPT ![r] = "complete"]
                   [] OTHER -> pc
        /\ err' = IF outcome = "rejected" THEN [err EXCEPT ![r] = message] ELSE err
        /\ processedCount' =
              IF outcome = "fulfilled"
              THEN [processedCount EXCEPT ![r] =
                       @ + SumOver(group, [x \in BatchIds |-> nbat[x].result])]
              ELSE processedCount

\* A chunk promise of attempt a of batch b rejects: Promise.all of the
\* attempt rejects (if it has not settled yet) and processBatchWithRetries
\* catches.
ChunkRejects(r, b, k, a, message) ==
    LET nbat == IF Live(r, b, a)
                THEN [bat[r] EXCEPT ![b] = processBatchWithRetriesCatch(@)]
                ELSE bat[r]
    IN  /\ cp' = [cp EXCEPT ![r][<<b, k, a>>] = "failed"]
        /\ bat' = [bat EXCEPT ![r] = nbat]
        /\ AwaitGroup(r, nbat, message)
        /\ faults' = [faults EXCEPT ![r] = @ + 1]
        /\ UNCHANGED groupIndex

\* the embedding call of a chunk promise fails
EmbeddingFails(r, b, k, a) ==
    /\ cp[r][<<b, k, a>>] = "embedding"
    /\ faults[r] < MaxFaults
    /\ ChunkRejects(r, b, k, a, "Embedding request failed")
    /\ UNCHANGED <<status, rows, pending, req, startStatus, sel, upd, docText, docType,
                   docMime, frames, textLength, delays, analysis,
                   chunks, config, embedCalls, writes, resp>>

\* the embedding call returns; the promise issues its insert
EmbeddingReturns(r, b, k, a) ==
    /\ cp[r][<<b, k, a>>] = "embedding"
    /\ cp' = [cp EXCEPT ![r][<<b, k, a>>] = "inserting"]
    /\ UNCHANGED <<status, rows, pending, pc, req, startStatus, sel, upd, docText, docType,
                   docMime, frames, textLength, delays, analysis,
                   chunks, config, groupIndex, processedCount, bat, embedCalls, faults,
                   err, writes, resp>>

\* the insert returns insertError: no row, the promise throws
InsertFails(r, b, k, a) ==
    /\ cp[r][<<b, k, a>>] = "inserting"
    /\ faults[r] < MaxFaults
    /\ ChunkRejects(r, b, k, a, "Database insert failed")
    /\ UNCHANGED <<status, rows, pending, req, startStatus, sel, upd, docText, docType,
                   docMime, frames, textLength, delays, analysis,
                   chunks, config, embedCalls, writes, resp>>

\* the row the promise (b, k) of run r inserts: chunk_index is globalIndex,
\* pos is the position in the chunker's output of the chunk whose content
\* the row carries
Row(r, b, k) ==
    [run |-> r, document_id |-> "d1",
     chunk_index |-> GlobalIndex(b, k, B(r)), pos |-> bat[r][b].items[k + 1]]

\* variant of InsertLands: the processor also touches the documents row
\* when a chunk is stored
InsertLandsTouchesDocument(r, b, k, a) ==
    /\ cp[r][<<b, k, a>>] = "inserting"
    /\ LET ncp == [cp[r] EXCEPT ![<<b, k, a>>] = "done"]
           nbat == IF Live(r, b, a) /\ AttemptFulfilled(ncp, b, a, bat[r][b].items)
                   THEN [bat[r] EXCEPT ![b].phase = "ok",
                                       ![b].result = Len(bat[r][b].items)]
                   ELSE bat[r]
       IN  /\ cp' = [cp EXCEPT ![r] = ncp]
           /\ bat' = [bat EXCEPT ![r] = nbat]
           /\ rows' = rows (+) SetToBag({Row(r, b, k)})
           /\ AwaitGroup(r, nbat, "")
    /\ status' = [d \in Documents |->
                      IF d = req[r].documentId THEN "processing" ELSE status[d]]
    /\ UNCHANGED <<pending, req, startStatus, sel, upd, docText, docType,
                   docMime, frames, textLength, delays, analysis,
                   chunks, config, groupIndex, embedCalls, faults, writes, resp>>

\* The insert of a chunk promise lands: the row is stored.  If this
\* fulfils the attempt, processBatch returns batch.length.
InsertLands(r, b, k, a) ==
    /\ cp[r][<<b, k, a>>] = "inserting"
    /\ LET ncp == [cp[r] EXCEPT ![<<b, k, a>>] = "done"]
           nbat == IF Live(r, b, a) /\ AttemptFulfilled(ncp, b, a, bat[r][b].items)
                   THEN [bat[r] EXCEPT ![b].phase = "ok",
                                       ![b].result = Len(bat[r][b].items)]
                   ELSE bat[r]
       IN  /\ cp' = [cp EXCEPT ![r] = ncp]
           /\ bat' = [bat EXCEPT ![r] = nbat]
           /\ rows' = rows (+) SetToBag({Row(r, b, k)})
           /\ AwaitGroup(r, nbat, "")
    /\ UNCHANGED <<status, pending, req, startStatus, sel, upd, docText, docType,
                   docMime, frames, textLength, delays, analysis,
                   chunks, config, groupIndex, embedCalls, faults, writes, resp>>

\* processBatchWithRetries: the backoff timer fires, the next attempt starts
RetryBatch(r, b) ==
    /\ bat[r][b].phase = "backoff"
    /\ bat' = [bat EXCEPT ![r][b].attempt = @ + 1, ![r][b].phase = "running"]
    /\ cp' = [cp EXCEPT ![r] = StartPromises(@, b, bat[r][b].attempt + 1, bat[r][b].items)]
    /\ embedCalls' = [embedCalls EXCEPT ![r] = @ + Len(bat[r][b].items)]
    /\ UNCHANGED <<status, rows, pending, pc, req, startStatus, sel, upd, docText, docType,
                   docMime, frames, textLength, delays, analysis,
                   chunks, config, groupIndex, processedCount, faults, err, writes, resp>>

\* variant of NextGroup: the next group starts without waiting for
\* Promise.all of the group under way
NextGroupNoAwait(r) ==
    /\ pc[r] \in {"embed", "delay"}
    /\ groupIndex[r] + 1 < NumGroups(r)
    /\ groupIndex' = [groupIndex EXCEPT ![r] = @ + 1]
    /\ bat' = [bat EXCEPT ![r] = StartGroupBat(@, N(r), B(r), M(r), groupIndex[r] + 1)]
    /\ cp' = [cp EXCEPT ![r] = StartGroupCp(@, N(r), B(r), M(r), groupIndex[r] + 1)]
    /\ embedCalls' = [embedCalls EXCEPT ![r] = @ + GroupSize(N(r), B(r), M(r), groupIndex[r] + 1)]
    /\ pc' = [pc EXCEPT ![r] = "embed"]
    /\ UNCHANGED <<status, rows, pending, req, startStatus, sel, upd, docText, docType,
                   docMime, frames, textLength, delays, analysis,
                   chunks, config, processedCount, faults, err, writes, resp>>

\* processAllChunks: the adaptive delay has passed, the next group starts
NextGroup(r) ==
    /\ pc[r] = "delay"
    /\ groupIndex' = [groupIndex EXCEPT ![r] = @ + 1]
    /\ bat' = [bat EXCEPT ![r] = StartGroupBat(@, N(r), B(r), M(r), groupIndex[r] + 1)]
    /\ cp' = [cp EXCEPT ![r] = StartGroupCp(@, N(r), B(r), M(r), groupIndex[r] + 1)]
    /\ embedCalls' = [embedCalls EXCEPT ![r] = @ + GroupSize(N(r), B(r), M(r), groupIndex[r] + 1)]
    /\ pc' = [pc EXCEPT ![r] = "embed"]
    /\ UNCHANGED <<status, rows, pending, req, startStatus, sel, upd, docText, docType,
                   docMime, frames, textLength, delays, analysis,
                   chunks, config, processedCount, faults, err, writes, resp>>

(***************************************************************************)
(* POST: the orchestrator                                                  *)
(***************************************************************************)
NoReq == [documentId |-> NoId, projectId |-> NoId, apiKey |-> FALSE]
NoResp == [kind |-> "none", code |-> 0, message |-> "", chunksCreated |-> 0]
ErrorResp(code, message) ==
    [kind |-> "error", code |-> code, message |-> message, chunksCreated |-> 0]
OkResp(n) == [kind |-> "ok", code |-> 200, message |-> "", chunksCreated |-> n]

SupportedMimes ==
    { "text/plain", "text/csv", "application/pdf",
      "application/vnd.openxmlformats-officedocument.wordprocessingml.document" }

\* documents.update({status: s}).eq("id", documentId)
UpdateStatus(st, documentId, s) ==
    [d \in Documents |-> IF d = documentId THEN s ELSE st[d]]

\* the statuses written by a run, extended when its update matches a row
Written(w, r, documentId, s) ==
    IF documentId \in Documents THEN [w EXCEPT ![r] = Append(@, s)] ELSE w

\* documents.select(...).eq("id", documentId).eq("project_id", projectId).single()
SelectDocument(documentId, projectId) ==
    {d \in Documents : d = documentId /\ ProjectOf(d) = projectId}

TriggerFaults == {"none", "body", "adminEnv"}

\* The trigger arrives: input validation, then the select and the
\* 'processing' update are issued together.  request.json() may throw
\* (documentId stays "unknown", which no row has), and so may
\* createSupabaseAdminClient, in the try block and again in the catch block.
\* variant of POST: a trigger for a document that is being processed is
\* answered 409 and goes no further
POSTSingleFlight(r) ==
    /\ r \in pending
    /\ pc[r] = "idle"
    /\ pending' = pending \ {r}
    /\ startStatus' = [startStatus EXCEPT ![r] = status]
    /\ \E apiKey \in BOOLEAN, documentId \in DocumentIds, projectId \in ProjectIds,
          fault \in TriggerFaults :
          IF ~apiKey
          THEN /\ pc' = [pc EXCEPT ![r] = "done"]
               /\ resp' = [resp EXCEPT ![r] = ErrorResp(500, "OpenAI API key missing")]
               /\ req' = [req EXCEPT ![r] = [NoReq EXCEPT !.apiKey = apiKey]]
               /\ UNCHANGED <<sel, upd, err>>
          ELSE IF fault = "body"
          THEN /\ pc' = [pc EXCEPT ![r] = "catch"]
               /\ err' = [err EXCEPT ![r] = "Invalid request body"]
               /\ req' = [req EXCEPT ![r] = [NoReq EXCEPT !.apiKey = apiKey]]
               /\ UNCHANGED <<sel, upd, resp>>
          ELSE IF documentId = NoId \/ projectId = NoId
          THEN /\ pc' = [pc EXCEPT ![r] = "done"]
               /\ resp' = [resp EXCEPT ![r] =
                             ErrorResp(400, "Document ID and Project ID required")]
               /\ req' = [req EXCEPT ![r] = [documentId |-> documentId,
                                             projectId |-> projectId, apiKey |-> apiKey]]
               /\ UNCHANGED <<sel, upd, err>>
          ELSE IF fault = "adminEnv"
          THEN /\ pc' = [pc EXCEPT ![r] = "done"]
               /\ resp' = [resp EXCEPT ![r] = ErrorResp(500, "Processing failed")]
               /\ req' = [req EXCEPT ![r] = [documentId |-> documentId,
                                             projectId |-> projectId, apiKey |-> apiKey]]
               /\ UNCHANGED <<sel, upd, err>>
          ELSE IF documentId \in Documents /\ status[documentId] = "processing"
          THEN /\ pc' = [pc EXCEPT ![r] = "done"]
               /\ resp' = [resp EXCEPT ![r] = ErrorResp(409, "Already processing")]
               /\ req' = [req EXCEPT ![r] = [documentId |-> documentId,
                                             projectId |-> projectId, apiKey |-> apiKey]]
               /\ UNCHANGED <<sel, upd, err>>
          ELSE /\ pc' = [pc EXCEPT ![r] = "fetch"]
               /\ sel' = [sel EXCEPT ![r] = "pending"]
               /\ upd' = [upd EXCEPT ![r] = "pending"]
               /\ req' = [req EXCEPT ![r] = [documentId |-> documentId,
                                             projectId |-> projectId, apiKey |-> apiKey]]
               /\ UNCHANGED <<resp, err>>
    /\ UNCHANGED <<status, rows, docText, docType, docMime, frames, textLength, delays, analysis, procVars, writes>>

\* variant of POST: the check of documentId and projectId is left out
POSTNoIdCheck(r) ==
    /\ r \in pending
    /\ pc[r] = "idle"
    /\ pending' = pending \ {r}
    /\ startStatus' = [startStatus EXCEPT ![r] = status]
    /\ \E apiKey \in BOOLEAN, documentId \in DocumentIds, projectId \in ProjectIds,
          fault \in TriggerFaults :
          IF ~apiKey
          THEN /\ pc' = [pc EXCEPT ![r] = "done"]
               /\ resp' = [resp EXCEPT ![r] = ErrorResp(500, "OpenAI API key missing")]
               /\ req' = [req EXCEPT ![r] = [NoReq EXCEPT !.apiKey = apiKey]]
               /\ UNCHANGED <<sel, upd, err>>
          ELSE IF fault = "body"
          THEN /\ pc' = [pc EXCEPT ![r] = "catch"]
               /\ err' = [err EXCEPT ![r] = "Invalid request body"]
               /\ req' = [req EXCEPT ![r] = [NoReq EXCEPT !.apiKey = apiKey]]
               /\ UNCHANGED <<sel, upd, resp>>
          ELSE IF fault = "adminEnv"
          THEN /\ pc' = [pc EXCEPT ![r] = "done"]
               /\ resp' = [resp EXCEPT ![r] = ErrorResp(500, "Processing failed")]
               /\ req' = [req EXCEPT ![r] = [documentId |-> documentId,
                                             projectId |-> projectId, apiKey |-> apiKey]]
               /\ UNCHANGED <<sel, upd, err>>
          ELSE /\ pc' = [pc EXCEPT ![r] = "fetch"]
               /\ sel' = [sel EXCEPT ![r] = "pending"]
               /\ upd' = [upd EXCEPT ![r] = "pending"]
               /\ req' = [req EXCEPT ![r] = [documentId |-> documentId,
                                             projectId |-> projectId, apiKey |-> apiKey]]
               /\ UNCHANGED <<resp, err>>
    /\ UNCHANGED <<status, rows, docText, docType, docMime, frames, textLength, delays,
                   analysis, procVars, writes>>

POST(r) ==
    /\ r \in pending
    /\ pc[r] = "idle"
    /\ pending' = pending \ {r}
    /\ startStatus' = [startStatus EXCEPT ![r] = status]
    /\ \E apiKey \in BOOLEAN, documentId \in DocumentIds, projectId \in ProjectIds,
          fault \in TriggerFaults :
          IF ~apiKey
          THEN /\ pc' = [pc EXCEPT ![r] = "done"]
               /\ resp' = [resp EXCEPT ![r] = ErrorResp(500, "OpenAI API key missing")]
               /\ req' = [req EXCEPT ![r] = [NoReq EXCEPT !.apiKey = apiKey]]
               /\ UNCHANGED <<sel, upd, err>>
          ELSE IF fault = "body"
          THEN /\ pc' = [pc EXCEPT ![r] = "catch"]
               /\ err' = [err EXCEPT ![r] = "Invalid request body"]
               /\ req' = [req EXCEPT ![r] = [NoReq EXCEPT !.apiKey = apiKey]]
               /\ UNCHANGED <<sel, upd, resp>>
          ELSE IF documentId = NoId \/ projectId = NoId
          THEN /\ pc' = [pc EXCEPT ![r] = "done"]
               /\ resp' = [resp EXCEPT ![r] =
                             ErrorResp(400, "Document ID and Project ID required")]
               /\ req' = [req EXCEPT ![r] = [documentId |-> documentId,
                                             projectId |-> projectId, apiKey |-> apiKey]]
               /\ UNCHANGED <<sel, upd, err>>
          ELSE IF fault = "adminEnv"
          THEN /\ pc' = [pc EXCEPT ![r] = "done"]
               /\ resp' = [resp EXCEPT ![r] = ErrorResp(500, "Processing failed")]
               /\ req' = [req EXCEPT ![r] = [documentId |-> documentId,
                                             projectId |-> projectId, apiKey |-> apiKey]]
               /\ UNCHANGED <<sel, upd, err>>
          ELSE /\ pc' = [pc EXCEPT ![r] = "fetch"]
               /\ sel' = [sel EXCEPT ![r] = "pending"]
               /\ upd' = [upd EXCEPT ![r] = "pending"]
               /\ req' = [req EXCEPT ![r] = [documentId |-> documentId,
                                             projectId |-> projectId, apiKey |-> apiKey]]
               /\ UNCHANGED <<resp, err>>
    /\ UNCHANGED <<status, rows, docText, docType, docMime, frames, textLength, delays, analysis, procVars, writes>>

\* continuation of Promise.all([select, update]) once both have settled
AfterFetch(r, selr, updr) ==
    IF selr = "pending" \/ updr = "pending" THEN pc
    ELSE IF selr = "found" THEN [pc EXCEPT ![r] = "extract"]
    ELSE [pc EXCEPT ![r] = "catch"]

\* the select settles: the row, or an error (no row, or a database error)
FetchDocument(r) ==
    /\ pc[r] = "fetch"
    /\ sel[r] = "pending"
    /\ \E res \in {"found", "error"} :
          /\ res = "found" => SelectDocument(req[r].documentId, req[r].projectId) # {}
          /\ sel' = [sel EXCEPT ![r] = res]
          /\ pc' = AfterFetch(r, res, upd[r])
          /\ err' = IF res = "error" THEN [err EXCEPT ![r] = "Document not found"] ELSE err
    /\ UNCHANGED <<status, rows, pending, req, startStatus, upd, docText, docType,
                   docMime, frames, textLength, delays, analysis,
                   procVars, writes, resp>>

\* the 'processing' update settles
MarkProcessing(r) ==
    /\ pc[r] = "fetch"
    /\ upd[r] = "pending"
    /\ status' = UpdateStatus(status, req[r].documentId, "processing")
    /\ writes' = Written(writes, r, req[r].documentId, "processing")
    /\ upd' = [upd EXCEPT ![r] = "done"]
    /\ pc' = AfterFetch(r, sel[r], "done")
    /\ UNCHANGED <<rows, pending, req, startStatus, sel, docText, docType, docMime, frames, textLength, delays, analysis,
                   procVars, err, resp>>

\* extractTextOptimized throws: the file fetch fails, the parser throws, or
\* the declared type is not supported
ExtractFails(r) ==
    /\ pc[r] = "extract"
    /\ \E message \in {"Failed to fetch", "Parser failed", "Unsupported file type"} :
          /\ message = "Unsupported file type" <=> docMime \notin SupportedMimes
          /\ message = "Parser failed" => docMime \notin {"text/plain", "text/csv"}
          /\ err' = [err EXCEPT ![r] = message]
    /\ pc' = [pc EXCEPT ![r] = "catch"]
    /\ UNCHANGED <<status, rows, pending, req, startStatus, sel, upd, docText, docType,
                   docMime, frames, textLength, delays, analysis,
                   procVars, writes, resp>>

\* POST, safety check: chunks.filter(c => c.tokens > 500); the handler logs
\* a warning when there are any and goes on
SafetyCheckTokens == 500
oversizedChunks(cs) == {i \in 1..Len(cs) : cs[i].tokens > SafetyCheckTokens}

\* extractTextOptimized returns the text: empty-content check, analysis,
\* configuration, chunking, zero-chunk check, then processAllChunks starts
\* the batches of group 0
ExtractAndChunk(r) ==
    /\ pc[r] = "extract"
    /\ docMime \in SupportedMimes
    /\ LET textContent == docText
           cfg == getConfig(TextLength(textContent), docType)
           cs == chunkIntelligently(textContent, docType, cfg)
           n == Len(cs)
       IN  IF TrimIsEmpty(textContent)
           THEN /\ pc' = [pc EXCEPT ![r] = "catch"]
                /\ err' = [err EXCEPT ![r] = "No text content extracted"]
                /\ UNCHANGED procVars
           ELSE IF n = 0
           THEN /\ pc' = [pc EXCEPT ![r] = "catch"]
                /\ err' = [err EXCEPT ![r] = "No chunks created"]
                /\ config' = [config EXCEPT ![r] = cfg]
                /\ chunks' = [chunks EXCEPT ![r] = cs]
                /\ UNCHANGED <<groupIndex, processedCount, bat, cp, embedCalls, faults>>
           ELSE /\ pc' = [pc EXCEPT ![r] = "embed"]
                /\ config' = [config EXCEPT ![r] = cfg]
                /\ chunks' = [chunks EXCEPT ![r] = cs]
                /\ groupIndex' = [groupIndex EXCEPT ![r] = 0]
                /\ processedCount' = [processedCount EXCEPT ![r] = 0]
                /\ bat' = [bat EXCEPT ![r] =
                             StartGroupBat(@, n, cfg.BATCH_SIZE, cfg.MAX_PARALLEL_BATCHES, 0)]
                /\ cp' = [cp EXCEPT ![r] =
                             StartGroupCp(@, n, cfg.BATCH_SIZE, cfg.MAX_PARALLEL_BATCHES, 0)]
                /\ embedCalls' = [embedCalls EXCEPT ![r] =
                             @ + GroupSize(n, cfg.BATCH_SIZE, cfg.MAX_PARALLEL_BATCHES, 0)]
                /\ UNCHANGED <<faults, err>>
    /\ UNCHANGED <<status, rows, pending, req, startStatus, sel, upd, docText, docType,
                   docMime, frames, textLength, delays, analysis,
                   writes, resp>>

\* variant of MarkCompleted: building the response throws after the
\* 'completed' update, and the catch block runs
MarkCompletedThenThrows(r) ==
    /\ pc[r] = "complete"
    /\ status' = UpdateStatus(status, req[r].documentId, "completed")
    /\ writes' = Written(writes, r, req[r].documentId, "completed")
    /\ err' = [err EXCEPT ![r] = "Response failed"]
    /\ pc' = [pc EXCEPT ![r] = "catch"]
    /\ UNCHANGED <<rows, pending, req, startStatus, sel, upd, docText, docType,
                   docMime, frames, textLength, delays, analysis, chunks, config, groupIndex,
                   processedCount, bat, cp, embedCalls, faults, resp>>

\* the 'completed' update settles; POST returns the success summary
MarkCompleted(r) ==
    /\ pc[r] = "complete"
    /\ status' = UpdateStatus(status, req[r].documentId, "completed")
    /\ writes' = Written(writes, r, req[r].documentId, "completed")
    /\ resp' = [resp EXCEPT ![r] = OkResp(processedCount[r])]
    /\ pc' = [pc EXCEPT ![r] = "done"]
    /\ UNCHANGED <<rows, pending, req, startStatus, sel, upd, docText, docType,
                   docMime, frames, textLength, delays, analysis,
                   procVars, err>>

\* the 'completed' update settles with an error in its result, or matches
\* no row: the awaited query does not throw and its result is not read, so
\* POST returns the success summary and the stored status stays as it was
MarkCompletedNoEffect(r) ==
    /\ pc[r] = "complete"
    /\ resp' = [resp EXCEPT ![r] = OkResp(processedCount[r])]
    /\ pc' = [pc EXCEPT ![r] = "done"]
    /\ UNCHANGED <<status, writes, rows, pending, req, startStatus, sel, upd, docText,
                   docType, docMime, frames, textLength, delays, analysis,
                   procVars, err>>

\* variant of CatchHandler: the catch block returns the error without the
\* 'failed' update
CatchHandlerNoUpdate(r) ==
    /\ pc[r] = "catch"
    /\ resp' = [resp EXCEPT ![r] = ErrorResp(500, err[r])]
    /\ pc' = [pc EXCEPT ![r] = "done"]
    /\ UNCHANGED <<status, writes, rows, pending, req, startStatus, sel, upd, docText, docType,
                   docMime, frames, textLength, delays, analysis, procVars, err>>

\* catch block of POST: the 'failed' update settles; POST returns the error
CatchHandler(r) ==
    /\ pc[r] = "catch"
    /\ status' = UpdateStatus(status, req[r].documentId, "failed")
    /\ writes' = Written(writes, r, req[r].documentId, "failed")
    /\ resp' = [resp EXCEPT ![r] = ErrorResp(500, err[r])]
    /\ pc' = [pc EXCEPT ![r] = "done"]
    /\ UNCHANGED <<rows, pending, req, startStatus, sel, upd, docText, docType,
                   docMime, frames, textLength, delays, analysis,
                   procVars, err>>

(***************************************************************************)
(* Specifications                                                          *)
(***************************************************************************)
\* number of paragraphs of a document of the pipeline specification
MaxDocUnits == 1

\* documents of the pipeline specification: prose paragraphs of one
\* sentence each, which is very short, longer than MAX_CHUNK_TOKENS of every
\* tier, or longer than the limit of the safety check of POST
DocParts ==
    { [tok |-> 3, len |-> 12], [tok |-> 450, len |-> 1800], [tok |-> 600, len |-> 2400] }

DocUnits == {[kind |-> "prose", parts |-> <<p>>] : p \in DocParts}

DocTexts == UNION {[1..m -> DocUnits] : m \in 0..MaxDocUnits}

DocMimes == {"text/plain", "application/pdf", "image/png"}

NoConfig == getConfig(0, "UNKNOWN")

IdleRuns ==
    /\ rows = EmptyBag
    /\ textLength = [r \in Runs |-> 0]
    /\ delays = [r \in Runs |-> <<>>]
    /\ analysis = [r \in Runs |-> NoAnalysis]
    /\ sel = [r \in Runs |-> "none"]
    /\ upd = [r \in Runs |-> "none"]
    /\ groupIndex = [r \in Runs |-> 0]
    /\ processedCount = [r \in Runs |-> 0]
    /\ faults = [r \in Runs |-> 0]
    /\ err = [r \in Runs |-> ""]
    /\ resp = [r \in Runs |-> NoResp]

\* the state before any trigger: the upload has created the documents row
Init ==
    /\ IdleRuns
    /\ status \in [Documents -> {"pending"}]
    /\ startStatus = [r \in Runs |-> status]
    /\ pending = {1}
    /\ frames = <<>>
    /\ pc = [r \in Runs |-> "idle"]
    /\ req = [r \in Runs |-> NoReq]
    /\ embedCalls = [r \in Runs |-> 0]
    /\ writes = [r \in Runs |-> <<>>]
    /\ docText \in DocTexts
    /\ docType \in ContentTypes
    /\ docMime \in DocMimes
    /\ chunks = [r \in Runs |-> <<>>]
    /\ config = [r \in Runs |-> NoConfig]
    /\ bat = [r \in Runs |-> [b \in BatchIds |-> NoBatch]]
    /\ cp = [r \in Runs |-> NoPromises]

\* the steps of the chunk promises and of the retry loops of the batches
Batches(r) ==
    \/ \E b \in BatchIds, k \in ChunkIds, a \in Attempts :
          \/ EmbeddingFails(r, b, k, a)
          \/ EmbeddingReturns(r, b, k, a)
          \/ InsertFails(r, b, k, a)
          \/ InsertLands(r, b, k, a)
    \/ \E b \in BatchIds : RetryBatch(r, b)

\* The whole handler.  The documents of DocTexts are in the smallest size
\* tier (BATCH_SIZE 5, MAX_PARALLEL_BATCHES 2) and have at most MaxDocUnits
\* chunks, so their chunks form one group and processAllChunks never
\* reaches a second one: NextGroup belongs to NextProc below, where the
\* batch size and the parallelism range over small values.
Next ==
    \E r \in Runs :
        \/ POST(r)
        \/ FetchDocument(r)
        \/ MarkProcessing(r)
        \/ ExtractFails(r)
        \/ ExtractAndChunk(r)
        \/ Batches(r)
        \/ MarkCompleted(r)
        \/ CatchHandler(r)

Spec == Init /\ [][Next]_vars

\* Spec takes every update of the documents table to take effect.  The
\* pipeline in which the 'completed' update may fail to:
NextStatusFault ==
    \/ Next
    \/ \E r \in Runs : MarkCompletedNoEffect(r)

SpecStatusFault == Init /\ [][NextStatusFault]_vars

\* chunk lists of the processor specification: n chunks of one sentence
ProcChunks(n) ==
    [i \in 1..n |->
        [content |-> <<[u |-> i, s |-> 1, tok |-> 150, len |-> 600]>>,
         tokens |-> 150, semanticBoundary |-> "SENTENCE"]]

ProcConfig(b, m) == [NoConfig EXCEPT !.BATCH_SIZE = b, !.MAX_PARALLEL_BATCHES = m]

\* the state in which POST has entered processAllChunks for d1 and the
\* batches of group 0 have been started, for every number of chunks and
\* every batch size and parallelism within the bounds (a batch size above
\* the number of chunks, or a parallelism above the number of batches,
\* gives the batches and groups of the largest value that is not)
InitProc ==
    /\ IdleRuns
    /\ status = [d \in Documents |-> "processing"]
    /\ startStatus = [r \in Runs |-> [d \in Documents |-> "pending"]]
    /\ pending = {}
    /\ frames = <<>>
    /\ docText = <<>>
    /\ docType = "UNKNOWN"
    /\ docMime = "text/plain"
    /\ \E n \in 1..MaxChunks, b \in 1..MaxBatchSize, m \in 1..MaxParallel :
          /\ b <= n
          /\ m <= (n + b - 1) \div b
          /\ chunks = [r \in Runs |-> IF r = 1 THEN ProcChunks(n) ELSE <<>>]
          /\ config = [r \in Runs |-> IF r = 1 THEN ProcConfig(b, m) ELSE NoConfig]
          /\ bat = [r \in Runs |->
                      IF r = 1 THEN StartGroupBat([x \in BatchIds |-> NoBatch], n, b, m, 0)
                      ELSE [x \in BatchIds |-> NoBatch]]
          /\ cp = [r \in Runs |->
                      IF r = 1 THEN StartGroupCp(NoPromises, n, b, m, 0) ELSE NoPromises]
          /\ embedCalls = [r \in Runs |-> IF r = 1 THEN GroupSize(n, b, m, 0) ELSE 0]
    /\ req = [r \in Runs |->
                IF r = 1 THEN [documentId |-> "d1", projectId |-> "p1", apiKey |-> TRUE]
                ELSE NoReq]
    /\ writes = [r \in Runs |-> IF r = 1 THEN <<"processing">> ELSE <<>>]
    /\ pc = [r \in Runs |-> IF r = 1 THEN "embed" ELSE "idle"]

NextProc ==
    \E r \in Runs :
        \/ Batches(r)
        \/ NextGroup(r)
        \/ MarkCompleted(r)
        \/ CatchHandler(r)

SpecProc == InitProc /\ [][NextProc]_vars

\* text lengths, one in each size tier of getConfig
TierLengths == {1000, 60000, 600000, 2500000}

\* the chunker alone: new SemanticChunker(config, name, analysis) for every
\* text within the bounds, every classification and every size tier
InitChunk ==
    /\ IdleRuns
    /\ status = [d \in Documents |-> "processing"]
    /\ startStatus = [r \in Runs |-> [d \in Documents |-> "pending"]]
    /\ pending = {}
    /\ frames = <<>>
    /\ req = [r \in Runs |-> NoReq]
    /\ embedCalls = [r \in Runs |-> 0]
    /\ writes = [r \in Runs |-> <<>>]
    /\ docText \in Texts
    /\ docType \in ContentTypes
    /\ docMime = "text/plain"
    /\ chunks = [r \in Runs |-> <<>>]
    /\ \E len \in TierLengths :
          config = [r \in Runs |-> IF r = 1 THEN getConfig(len, docType) ELSE NoConfig]
    /\ bat = [r \in Runs |-> [b \in BatchIds |-> NoBatch]]
    /\ cp = [r \in Runs |-> NoPromises]
    /\ pc = [r \in Runs |-> IF r = 1 THEN "chunk" ELSE "idle"]

\* chunker.chunkIntelligently(textContent)
Chunk(r) ==
    /\ pc[r] = "chunk"
    /\ chunks' = [chunks EXCEPT ![r] = chunkIntelligently(docText, docType, config[r])]
    /\ pc' = [pc EXCEPT ![r] = "chunked"]
    /\ UNCHANGED <<status, rows, pending, req, startStatus, sel, upd, docText, docType,
                   docMime, frames, textLength, delays, analysis,
                   config, groupIndex, processedCount, bat, cp, embedCalls, faults,
                   err, writes, resp>>

NextChunk == \E r \in Runs : Chunk(r)

SpecChunk == InitChunk /\ [][NextChunk]_vars

(***************************************************************************)
(* The second process-document handler of the repository (the source file  *)
(* src/unnamed/part_013): select, then 'processing', extractTextFromFile,  *)
(* splitTextIntoChunks, batches of 5 chunks without retries.               *)
(***************************************************************************)
MAX_CHUNK_SIZE == 500
BatchSize013 == 5

\* estimateTokens: the mean of 1.3 tokens per word and one token per 4
\* characters, rounded up; a word taken to be 5 characters and a space
estimateTokens(p) ==
    LET words == Max(1, p.len \div 6)
        chars == p.len
    IN  (26 * words + 5 * chars + 39) \div 40

\* splitTextIntoChunks: the loop over sentences, from sentence i on;
\* slice(-overlapSentences) keeps the whole chunk when overlapSentences is 0
RECURSIVE splitTextIntoChunksLoop(_, _, _, _, _, _)
splitTextIntoChunksLoop(sentences, i, out, currentChunk, currentTokens, maxTokens) ==
    IF i > Len(sentences)
    THEN IF Len(currentChunk) > 0
         THEN Append(out, [content |-> currentChunk, tokens |-> currentTokens,
                           semanticBoundary |-> "SENTENCE"])
         ELSE out
    ELSE LET sentence == sentences[i]
             sentenceTokens == estimateTokens(sentence)
         IN  IF currentTokens + sentenceTokens > maxTokens /\ Len(currentChunk) > 0
             THEN LET overlapSentences == (Len(currentChunk) * 2) \div 10
                      kept == IF overlapSentences = 0 THEN currentChunk
                              ELSE LastN(currentChunk, overlapSentences)
                      keptTokens == SumOver(1..Len(kept),
                                            [j \in 1..Len(kept) |-> estimateTokens(kept[j])])
                  IN  splitTextIntoChunksLoop(sentences, i + 1,
                          Append(out, [content |-> currentChunk, tokens |-> currentTokens,
                                       semanticBoundary |-> "SENTENCE"]),
                          Append(kept, sentence), keptTokens + sentenceTokens, maxTokens)
             ELSE splitTextIntoChunksLoop(sentences, i + 1, out,
                          Append(currentChunk, sentence), currentTokens + sentenceTokens,
                          maxTokens)

splitTextIntoChunks(t, maxTokens) ==
    splitTextIntoChunksLoop(Flatten(Sections(t)), 1, <<>>, <<>>, 0, maxTokens)

\* extractTextFromFile, when nothing throws: the text of the file for the
\* four supported types, the empty string for any other type
extractTextFromFile(t, mimeType) == IF mimeType \in SupportedMimes THEN t ELSE <<>>

\* The trigger arrives: input validation, then the select is issued.  When
\* request.json() or createSupabaseAdminClient throws, the outer catch
\* cannot read the body again, finds no documentId and updates nothing.
POST_part013(r) ==
    /\ r \in pending
    /\ pc[r] = "idle"
    /\ pending' = pending \ {r}
    /\ startStatus' = [startStatus EXCEPT ![r] = status]
    /\ \E apiKey \in BOOLEAN, documentId \in DocumentIds, projectId \in ProjectIds,
          fault \in TriggerFaults :
          /\ req' = [req EXCEPT ![r] = [documentId |-> documentId, projectId |-> projectId,
                                        apiKey |-> apiKey]]
          /\ IF ~apiKey
             THEN /\ pc' = [pc EXCEPT ![r] = "done"]
                  /\ resp' = [resp EXCEPT ![r] = ErrorResp(500, "OpenAI API key missing")]
             ELSE IF fault = "body"
             THEN /\ pc' = [pc EXCEPT ![r] = "done"]
                  /\ resp' = [resp EXCEPT ![r] = ErrorResp(500, "Document processing failed")]
             ELSE IF documentId = NoId \/ projectId = NoId
             THEN /\ pc' = [pc EXCEPT ![r] = "done"]
                  /\ resp' = [resp EXCEPT ![r] =
                                ErrorResp(400, "Document ID and Project ID are required")]
             ELSE IF fault = "adminEnv"
             THEN /\ pc' = [pc EXCEPT ![r] = "done"]
                  /\ resp' = [resp EXCEPT ![r] = ErrorResp(500, "Document processing failed")]
             ELSE /\ pc' = [pc EXCEPT ![r] = "select013"]
                  /\ UNCHANGED resp
    /\ UNCHANGED <<status, rows, sel, upd, docText, docType, docMime, frames, textLength, delays, analysis,
                   procVars, err, writes>>

\* the select settles: without a row the handler answers 404 and writes
\* nothing; with the row it issues the 'processing' update
FetchDocument013(r) ==
    /\ pc[r] = "select013"
    /\ \E res \in {"found", "error"} :
          /\ res = "found" => SelectDocument(req[r].documentId, req[r].projectId) # {}
          /\ sel' = [sel EXCEPT ![r] = res]
          /\ IF res = "found"
             THEN /\ pc' = [pc EXCEPT ![r] = "processing013"]
                  /\ UNCHANGED resp
             ELSE /\ pc' = [pc EXCEPT ![r] = "done"]
                  /\ resp' = [resp EXCEPT ![r] = ErrorResp(404, "Document not found")]
    /\ UNCHANGED <<status, rows, pending, req, startStatus, upd, docText, docType,
                   docMime, frames, textLength, delays, analysis, procVars, err, writes>>

\* the 'processing' update settles; the extraction starts
MarkProcessing013(r) ==
    /\ pc[r] = "processing013"
    /\ status' = UpdateStatus(status, req[r].documentId, "processing")
    /\ writes' = Written(writes, r, req[r].documentId, "processing")
    /\ upd' = [upd EXCEPT ![r] = "done"]
    /\ pc' = [pc EXCEPT ![r] = "extract013"]
    /\ UNCHANGED <<rows, pending, req, startStatus, sel, docText, docType,
                   docMime, frames, textLength, delays, analysis, procVars, err, resp>>

\* extractTextFromFile throws: the file fetch fails or the parser throws
ExtractFails013(r) ==
    /\ pc[r] = "extract013"
    /\ \E message \in {"Failed to fetch file", "Parser failed"} :
          /\ message = "Parser failed" =>
                docMime \in SupportedMimes \ {"text/plain", "text/csv"}
          /\ err' = [err EXCEPT ![r] = message]
    /\ pc' = [pc EXCEPT ![r] = "failed013"]
    /\ UNCHANGED <<status, rows, pending, req, startStatus, sel, upd, docText, docType,
                   docMime, frames, textLength, delays, analysis, procVars, writes, resp>>

\* extractTextFromFile returns: without content, or without chunks, the
\* handler goes on to mark the document 'completed'; otherwise the promises
\* of the first batch start.  The documents have at most BatchSize013
\* chunks, so the first batch is the only one.
Extract013(r) ==
    /\ pc[r] = "extract013"
    /\ LET textContent == extractTextFromFile(docText, docMime)
           cs == splitTextIntoChunks(textContent, MAX_CHUNK_SIZE)
       IN  IF TrimIsEmpty(textContent) \/ Len(cs) = 0
           THEN /\ pc' = [pc EXCEPT ![r] = "completed013"]
                /\ UNCHANGED <<chunks, cp, embedCalls>>
           ELSE /\ Len(cs) <= BatchSize013
                /\ pc' = [pc EXCEPT ![r] = "embed013"]
                /\ chunks' = [chunks EXCEPT ![r] = cs]
                /\ cp' = [cp EXCEPT ![r] =
                             [t \in PromiseIds |->
                                 IF t[1] = 0 /\ t[3] = 1 /\ t[2] < Len(cs)
                                 THEN "embedding" ELSE @[t]]]
                /\ embedCalls' = [embedCalls EXCEPT ![r] = @ + Len(cs)]
    /\ processedCount' = [processedCount EXCEPT ![r] = 0]
    /\ UNCHANGED <<status, rows, pending, req, startStatus, sel, upd, docText, docType,
                   docMime, frames, textLength, delays, analysis, config, groupIndex, bat, faults,
                   err, writes, resp>>

\* a chunk promise of the batch throws (the embedding call or the insert
\* fails): Promise.all rejects if it has not settled
ChunkFails013(r, k) ==
    /\ cp[r][<<0, k, 1>>] \in {"embedding", "inserting"}
    /\ faults[r] < MaxFaults
    /\ faults' = [faults EXCEPT ![r] = @ + 1]
    /\ cp' = [cp EXCEPT ![r][<<0, k, 1>>] = "failed"]
    /\ IF pc[r] = "embed013"
       THEN /\ pc' = [pc EXCEPT ![r] = "failed013"]
            /\ err' = [err EXCEPT ![r] = "Batch processing failed"]
       ELSE UNCHANGED <<pc, err>>
    /\ UNCHANGED <<status, rows, pending, req, startStatus, sel, upd, docText, docType,
                   docMime, frames, textLength, delays, analysis, chunks, config, groupIndex, processedCount,
                   bat, embedCalls, writes, resp>>

\* the embedding call of a chunk promise returns; the promise issues its insert
EmbeddingReturns013(r, k) ==
    /\ cp[r][<<0, k, 1>>] = "embedding"
    /\ cp' = [cp EXCEPT ![r][<<0, k, 1>>] = "inserting"]
    /\ UNCHANGED <<status, rows, pending, pc, req, startStatus, sel, upd, docText, docType,
                   docMime, frames, textLength, delays, analysis, chunks, config, groupIndex, processedCount,
                   bat, embedCalls, faults, err, writes, resp>>

\* the insert of a chunk promise lands: chunk_index is i + batchIndex;
\* processedChunks++; when it was the last of the batch, Promise.all is
\* fulfilled and the loop over the batches ends
InsertLands013(r, k) ==
    /\ cp[r][<<0, k, 1>>] = "inserting"
    /\ LET ncp == [cp[r] EXCEPT ![<<0, k, 1>>] = "done"]
       IN  /\ cp' = [cp EXCEPT ![r] = ncp]
           /\ pc' = IF /\ pc[r] = "embed013"
                       /\ \A kk \in 0..(Len(chunks[r]) - 1) : ncp[<<0, kk, 1>>] = "done"
                    THEN [pc EXCEPT ![r] = "completed013"]
                    ELSE pc
    /\ rows' = rows (+) SetToBag({[run |-> r, document_id |-> "d1",
                                   chunk_index |-> k, pos |-> k]})
    /\ processedCount' = [processedCount EXCEPT ![r] = @ + 1]
    /\ UNCHANGED <<status, pending, req, startStatus, sel, upd, docText, docType,
                   docMime, frames, textLength, delays, analysis, chunks, config, groupIndex, bat,
                   embedCalls, faults, err, writes, resp>>

\* the 'completed' update settles; the handler answers 200 with chunksCreated
MarkCompleted013(r) ==
    /\ pc[r] = "completed013"
    /\ status' = UpdateStatus(status, req[r].documentId, "completed")
    /\ writes' = Written(writes, r, req[r].documentId, "completed")
    /\ resp' = [resp EXCEPT ![r] = OkResp(processedCount[r])]
    /\ pc' = [pc EXCEPT ![r] = "done"]
    /\ UNCHANGED <<rows, pending, req, startStatus, sel, upd, docText, docType,
                   docMime, frames, textLength, delays, analysis, procVars, err>>

\* the 'failed' update settles; the handler answers 500
MarkFailed013(r) ==
    /\ pc[r] = "failed013"
    /\ status' = UpdateStatus(status, req[r].documentId, "failed")
    /\ writes' = Written(writes, r, req[r].documentId, "failed")
    /\ resp' = [resp EXCEPT ![r] = ErrorResp(500, err[r])]
    /\ pc' = [pc EXCEPT ![r] = "done"]
    /\ UNCHANGED <<rows, pending, req, startStatus, sel, upd, docText, docType,
                   docMime, frames, textLength, delays, analysis, procVars, err>>

Next013 ==
    \E r \in Runs :
        \/ POST_part013(r)
        \/ FetchDocument013(r)
        \/ MarkProcessing013(r)
        \/ ExtractFails013(r)
        \/ Extract013(r)
        \/ \E k \in ChunkIds : \/ ChunkFails013(r, k)
                                \/ EmbeddingReturns013(r, k)
                                \/ InsertLands013(r, k)
        \/ MarkCompleted013(r)
        \/ MarkFailed013(r)

Spec013 == Init /\ [][Next013]_vars

(***************************************************************************)
(* Several triggers for the same document: every run of Runs is triggered, *)
(* at any time (SpecRuns), or only once the runs before it have returned   *)
(* and all their requests have settled (SpecRerun).                        *)
(***************************************************************************)
\* a plain-text document of two paragraphs, which gives two chunks
TwoParagraphs ==
    [i \in 1..2 |-> [kind |-> "prose", parts |-> <<[tok |-> 450, len |-> 1800]>>]]

InitRuns ==
    /\ IdleRuns
    /\ status \in [Documents -> {"pending"}]
    /\ startStatus = [r \in Runs |-> status]
    /\ pending = Runs
    /\ frames = <<>>
    /\ pc = [r \in Runs |-> "idle"]
    /\ req = [r \in Runs |-> NoReq]
    /\ embedCalls = [r \in Runs |-> 0]
    /\ writes = [r \in Runs |-> <<>>]
    /\ docText \in DocTexts
    /\ docType \in ContentTypes
    /\ docMime \in DocMimes
    /\ chunks = [r \in Runs |-> <<>>]
    /\ config = [r \in Runs |-> NoConfig]
    /\ bat = [r \in Runs |-> [b \in BatchIds |-> NoBatch]]
    /\ cp = [r \in Runs |-> NoPromises]

\* concurrent triggers: the documents of DocTexts and the one of two
\* paragraphs; the embedding calls and inserts that fail are those of the
\* last run (the other runs start with their fault budget used up)
InitConcurrent ==
    /\ rows = EmptyBag
    /\ textLength = [r \in Runs |-> 0]
    /\ delays = [r \in Runs |-> <<>>]
    /\ analysis = [r \in Runs |-> NoAnalysis]
    /\ sel = [r \in Runs |-> "none"]
    /\ upd = [r \in Runs |-> "none"]
    /\ groupIndex = [r \in Runs |-> 0]
    /\ processedCount = [r \in Runs |-> 0]
    /\ faults = [r \in Runs |-> IF r = NumRuns THEN 0 ELSE MaxFaults]
    /\ err = [r \in Runs |-> ""]
    /\ resp = [r \in Runs |-> NoResp]
    /\ status \in [Documents -> {"pending"}]
    /\ startStatus = [r \in Runs |-> status]
    /\ pending = Runs
    /\ frames = <<>>
    /\ pc = [r \in Runs |-> "idle"]
    /\ req = [r \in Runs |-> NoReq]
    /\ embedCalls = [r \in Runs |-> 0]
    /\ writes = [r \in Runs |-> <<>>]
    /\ \/ /\ docText \in DocTexts
          /\ docType \in ContentTypes
          /\ docMime \in DocMimes
       \/ /\ docText = TwoParagraphs
          /\ docType = "NATURAL_LANGUAGE"
          /\ docMime = "text/plain"
    /\ chunks = [r \in Runs |-> <<>>]
    /\ config = [r \in Runs |-> NoConfig]
    /\ bat = [r \in Runs |-> [b \in BatchIds |-> NoBatch]]
    /\ cp = [r \in Runs |-> NoPromises]

SpecRuns == InitConcurrent /\ [][Next]_vars

\* the run has returned and nothing it started is still under way
Settled(q) ==
    /\ pc[q] = "done"
    /\ sel[q] # "pending"
    /\ upd[q] # "pending"
    /\ \A t \in PromiseIds : cp[q][t] \notin {"embedding", "inserting"}
    /\ \A b \in BatchIds : bat[q][b].phase \notin {"running", "backoff"}

\* a trigger that arrives when every other run is still to come or is over
Rerun(r) ==
    /\ \A q \in Runs \ {r} : pc[q] = "idle" \/ Settled(q)
    /\ POST(r)

NextRerun ==
    \E r \in Runs :
        \/ Rerun(r)
        \/ FetchDocument(r)
        \/ MarkProcessing(r)
        \/ ExtractFails(r)
        \/ ExtractAndChunk(r)
        \/ Batches(r)
        \/ MarkCompleted(r)
        \/ CatchHandler(r)

SpecRerun == InitRuns /\ [][NextRerun]_vars

(***************************************************************************)
(* The loop over the batch groups in processAllChunks, with each group as  *)
(* one step (Promise.all of the group is fulfilled or rejects) and the     *)
(* adaptive delay between the groups, for the configuration of every tier. *)
(***************************************************************************)
\* values of rate (chunks per second) around the thresholds of the strategies
Rates == {0, 10, 11, 20, 21, 30, 31}

\* variant of calculateAdaptiveDelay: BALANCED halves the delay when the
\* rate is low
calculateAdaptiveDelaySlowHalved(cfg, currentRate, strategy) ==
    CASE strategy = "ACCURACY_FIRST" -> cfg.BATCH_DELAY_MS
      [] strategy = "BALANCED" ->
            IF currentRate > 10 THEN cfg.BATCH_DELAY_MS ELSE cfg.BATCH_DELAY_MS \div 2
      [] strategy = "SPEED_OPTIMIZED" ->
            IF currentRate > 20 THEN 50 ELSE cfg.BATCH_DELAY_MS \div 2
      [] strategy = "MAXIMUM_THROUGHPUT" -> IF currentRate > 30 THEN 0 ELSE 100
      [] OTHER -> cfg.BATCH_DELAY_MS

\* calculateAdaptiveDelay(currentRate, strategy), with this.config as cfg
calculateAdaptiveDelay(cfg, currentRate, strategy) ==
    CASE strategy = "ACCURACY_FIRST" -> cfg.BATCH_DELAY_MS
      [] strategy = "BALANCED" ->
            IF currentRate > 10 THEN cfg.BATCH_DELAY_MS \div 2 ELSE cfg.BATCH_DELAY_MS
      [] strategy = "SPEED_OPTIMIZED" ->
            IF currentRate > 20 THEN 50 ELSE cfg.BATCH_DELAY_MS \div 2
      [] strategy = "MAXIMUM_THROUGHPUT" -> IF currentRate > 30 THEN 0 ELSE 100
      [] OTHER -> cfg.BATCH_DELAY_MS

\* processAllChunks has been entered with the configuration of a tier and
\* a chunk list of one, two or three groups; group 0 is under way
InitDelay ==
    /\ IdleRuns
    /\ status = [d \in Documents |-> "processing"]
    /\ startStatus = [r \in Runs |-> [d \in Documents |-> "pending"]]
    /\ pending = {}
    /\ frames = <<>>
    /\ docText = <<>>
    /\ docType = "UNKNOWN"
    /\ docMime = "text/plain"
    /\ \E len \in TierLengths, groups \in 1..3 :
          LET cfg == getConfig(len, docType)
              n == (groups - 1) * cfg.BATCH_SIZE * cfg.MAX_PARALLEL_BATCHES + 1
          IN  /\ chunks = [r \in Runs |-> IF r = 1 THEN ProcChunks(n) ELSE <<>>]
              /\ config = [r \in Runs |-> IF r = 1 THEN cfg ELSE NoConfig]
    /\ bat = [r \in Runs |-> [x \in BatchIds |-> NoBatch]]
    /\ cp = [r \in Runs |-> NoPromises]
    /\ embedCalls = [r \in Runs |-> 0]
    /\ req = [r \in Runs |->
                IF r = 1 THEN [documentId |-> "d1", projectId |-> "p1", apiKey |-> TRUE]
                ELSE NoReq]
    /\ writes = [r \in Runs |-> IF r = 1 THEN <<"processing">> ELSE <<>>]
    /\ pc = [r \in Runs |-> IF r = 1 THEN "embed" ELSE "idle"]

\* number of chunks of group g
ChunksOfGroup(n, bs, mp, g) == Min(n, (g + 1) * bs * mp) - g * bs * mp

\* Promise.all of the group is fulfilled: processedCount grows by the
\* chunks of the group; before the last group the rate is computed from
\* the clock and calculateAdaptiveDelay gives the delay, which is awaited
\* if it is positive (otherwise the next group starts at once); after the
\* last group processAllChunks returns
GroupFulfilled(r) ==
    /\ pc[r] = "embed"
    /\ processedCount' = [processedCount EXCEPT ![r] =
                              @ + ChunksOfGroup(N(r), B(r), M(r), groupIndex[r])]
    /\ IF groupIndex[r] < NumGroups(r) - 1
       THEN \E rate \in Rates :
               LET adaptiveDelay ==
                       calculateAdaptiveDelay(config[r], rate, config[r].PROCESSING_STRATEGY)
               IN  /\ delays' = [delays EXCEPT ![r] =
                                    Append(@, [rate |-> rate, ms |-> adaptiveDelay,
                                               groupIndex |-> groupIndex[r]])]
                   /\ IF adaptiveDelay > 0
                      THEN /\ pc' = [pc EXCEPT ![r] = "delay"]
                           /\ UNCHANGED groupIndex
                      ELSE /\ groupIndex' = [groupIndex EXCEPT ![r] = @ + 1]
                           /\ UNCHANGED pc
       ELSE /\ pc' = [pc EXCEPT ![r] = "complete"]
            /\ UNCHANGED <<delays, groupIndex>>
    /\ UNCHANGED <<status, rows, pending, req, startStatus, sel, upd, docText, docType,
                   docMime, frames, textLength, analysis, chunks, config, bat, cp,
                   embedCalls, faults, err, writes, resp>>

\* Promise.all of the group rejects: the error is rethrown to POST
GroupRejected(r) ==
    /\ pc[r] = "embed"
    /\ pc' = [pc EXCEPT ![r] = "catch"]
    /\ err' = [err EXCEPT ![r] = "Batch failed"]
    /\ UNCHANGED <<status, rows, pending, req, startStatus, sel, upd, docText, docType,
                   docMime, frames, textLength, delays, analysis, procVars, writes, resp>>

\* the timer of the adaptive delay fires: the next group starts
DelayPassed(r) ==
    /\ pc[r] = "delay"
    /\ groupIndex' = [groupIndex EXCEPT ![r] = @ + 1]
    /\ pc' = [pc EXCEPT ![r] = "embed"]
    /\ UNCHANGED <<status, rows, pending, req, startStatus, sel, upd, docText, docType,
                   docMime, frames, textLength, delays, analysis, chunks, config, processedCount,
                   bat, cp, embedCalls, faults, err, writes, resp>>

NextDelay ==
    \E r \in Runs :
        \/ GroupFulfilled(r)
        \/ GroupRejected(r)
        \/ DelayPassed(r)
        \/ MarkCompleted(r)
        \/ CatchHandler(r)

SpecDelay == InitDelay /\ [][NextDelay]_vars

(***************************************************************************)
(* ContentAnalyzer.analyzeContent on its own: one call, for every pair of  *)
(* scores up to MaxScore on samples of the lengths of SampleLengths.       *)
(***************************************************************************)
MaxScore == 8
SampleLengths == {10, 25}

InitAnalyze ==
    /\ rows = EmptyBag
    /\ textLength = [r \in Runs |-> 0]
    /\ delays = [r \in Runs |-> <<>>]
    /\ sel = [r \in Runs |-> "none"]
    /\ upd = [r \in Runs |-> "none"]
    /\ groupIndex = [r \in Runs |-> 0]
    /\ processedCount = [r \in Runs |-> 0]
    /\ faults = [r \in Runs |-> 0]
    /\ err = [r \in Runs |-> ""]
    /\ resp = [r \in Runs |-> NoResp]
    /\ status = [d \in Documents |-> "processing"]
    /\ startStatus = [r \in Runs |-> [d \in Documents |-> "pending"]]
    /\ pending = {}
    /\ frames = <<>>
    /\ req = [r \in Runs |-> NoReq]
    /\ embedCalls = [r \in Runs |-> 0]
    /\ writes = [r \in Runs |-> <<>>]
    /\ docText = <<>>
    /\ docType = "UNKNOWN"
    /\ docMime = "text/plain"
    /\ chunks = [r \in Runs |-> <<>>]
    /\ config = [r \in Runs |-> NoConfig]
    /\ bat = [r \in Runs |-> [b \in BatchIds |-> NoBatch]]
    /\ cp = [r \in Runs |-> NoPromises]
    /\ \E codeScore \in 0..MaxScore, nlScore \in 0..MaxScore, totalChars \in SampleLengths :
          analysis = [r \in Runs |->
                        IF r = 1
                        THEN [NoAnalysis EXCEPT !.codeScore = codeScore, !.nlScore = nlScore,
                                                !.totalChars = totalChars]
                        ELSE NoAnalysis]
    /\ pc = [r \in Runs |-> IF r = 1 THEN "analyze" ELSE "idle"]

\* POST calls ContentAnalyzer.analyzeContent
Analyze(r) ==
    /\ pc[r] = "analyze"
    /\ analysis' = [analysis EXCEPT ![r] = analyzeContent(@.codeScore, @.nlScore, @.totalChars)]
    /\ pc' = [pc EXCEPT ![r] = "analyzed"]
    /\ UNCHANGED <<status, rows, pending, req, startStatus, sel, upd, docText, docType,
                   docMime, frames, textLength, delays, procVars, err, writes, resp>>

NextAnalyze == \E r \in Runs : Analyze(r)

SpecAnalyze == InitAnalyze /\ [][NextAnalyze]_vars

(***************************************************************************)
(* AdaptiveConfig.getConfig on its own: one call per run, all for texts of *)
(* the same classification.                                                *)
(***************************************************************************)
\* text lengths at and around the thresholds of the tiers
ConfigLengths ==
    {0, 1000, 49999, 50000, 499999, 500000, 600000, 1999999, 2000000, 2500000}

InitConfig ==
    /\ rows = EmptyBag
    /\ sel = [r \in Runs |-> "none"]
    /\ upd = [r \in Runs |-> "none"]
    /\ groupIndex = [r \in Runs |-> 0]
    /\ processedCount = [r \in Runs |-> 0]
    /\ faults = [r \in Runs |-> 0]
    /\ err = [r \in Runs |-> ""]
    /\ resp = [r \in Runs |-> NoResp]
    /\ status = [d \in Documents |-> "processing"]
    /\ startStatus = [r \in Runs |-> [d \in Documents |-> "pending"]]
    /\ pending = {}
    /\ frames = <<>>
    /\ req = [r \in Runs |-> NoReq]
    /\ embedCalls = [r \in Runs |-> 0]
    /\ writes = [r \in Runs |-> <<>>]
    /\ docText = <<>>
    /\ docType \in ContentTypes
    /\ docMime = "text/plain"
    /\ chunks = [r \in Runs |-> <<>>]
    /\ config = [r \in Runs |-> NoConfig]
    /\ bat = [r \in Runs |-> [b \in BatchIds |-> NoBatch]]
    /\ cp = [r \in Runs |-> NoPromises]
    /\ textLength \in [Runs -> ConfigLengths]
    /\ delays = [r \in Runs |-> <<>>]
    /\ analysis = [r \in Runs |-> NoAnalysis]
    /\ pc = [r \in Runs |-> "configure"]

\* const config = AdaptiveConfig.getConfig(textContent.length, contentAnalysis.type)
Configure(r) ==
    /\ pc[r] = "configure"
    /\ config' = [config EXCEPT ![r] = getConfig(textLength[r], docType)]
    /\ pc' = [pc EXCEPT ![r] = "configured"]
    /\ UNCHANGED <<status, rows, pending, req, startStatus, sel, upd, docText, docType,
                   docMime, frames, textLength, delays, analysis, chunks, groupIndex, processedCount, bat, cp,
                   embedCalls, faults, err, writes, resp>>

NextConfig == \E r \in Runs : Configure(r)

SpecConfig == InitConfig /\ [][NextConfig]_vars

(***************************************************************************)
(* The loops of SemanticChunker, one iteration at a time.                  *)
(*                                                                         *)
(* A frame is a loop in progress: the method, the array it iterates over   *)
(* and the position of the next element.  Which method an iteration calls  *)
(* depends on the element only (its type, or its token count against       *)
(* MAX_CHUNK_TOKENS), never on the chunk being accumulated, so the frames  *)
(* carry no accumulator; the chunks are those of chunkIntelligently.       *)
(***************************************************************************)
Frame(fn, items, arg) == [fn |-> fn, items |-> items, i |-> 1, arg |-> arg]

\* documents of the loop specification: every sentence of a unit has the
\* same size, which fits MAX_CHUNK_TOKENS once but not twice, or exceeds it
\* on its own
LoopParts == { [tok |-> 150, len |-> 600], [tok |-> 450, len |-> 1800] }

LoopUnits ==
    [kind : {"decl"}, parts : {<<p>> : p \in LoopParts}] \cup
    [kind : {"code", "prose"},
     parts : {[s \in 1..m |-> p] : m \in 1..MaxParts, p \in LoopParts}]

LoopTexts == UNION {[1..m -> LoopUnits] : m \in 1..MaxUnits}

\* chunkCode begins with extractCodeBlocks, whose while loop runs once for
\* every match of functionRegex (every declaration of the text)
EnterChunkCode(secs) ==
    Frame("extractCodeBlocks", SelectSeq(secs, LAMBDA sec : sec.kind = "decl"), secs)

\* chunkNaturalLanguage iterates over the units extractSemanticUnits returns
EnterChunkNaturalLanguage(secs) ==
    Frame("chunkNaturalLanguage", extractSemanticUnits(secs), <<>>)

\* the switch of chunkIntelligently: the first loop entered
EnterChunkIntelligently(t, type) ==
    CASE type = "CODE" -> EnterChunkCode(Sections(t))
      [] type = "NATURAL_LANGUAGE" -> EnterChunkNaturalLanguage(Sections(t))
      [] type = "MIXED" -> Frame("chunkMixed", identifyMixedSections(Sections(t)), <<>>)
      [] OTHER -> Frame("splitBySentences", Flatten(Sections(t)), <<>>)

\* the loops an iteration of frame f enters for its element: none, or one
Callee(f, cfg) ==
    LET x == f.items[f.i]
    IN  CASE f.fn = "chunkMixed" ->
                IF x.type = "CODE" THEN <<EnterChunkCode(x.secs)>>
                ELSE <<EnterChunkNaturalLanguage(x.secs)>>
          [] f.fn = "chunkCode" ->
                IF getAccurateTokenCount(x.content) > cfg.MAX_CHUNK_TOKENS
                THEN <<Frame("splitLargeCodeBlock", x.content, <<>>)>>
                ELSE <<>>
          [] f.fn = "chunkNaturalLanguage" ->
                IF getAccurateTokenCount(x.content) > cfg.MAX_CHUNK_TOKENS
                THEN <<Frame("splitBySentences", x.content, <<>>)>>
                ELSE <<>>
          [] OTHER -> <<>>

\* what follows the end of the loop of frame f in the same method: the
\* loop over the blocks follows extractCodeBlocks in chunkCode
Continuation(f) ==
    IF f.fn = "extractCodeBlocks"
    THEN <<Frame("chunkCode", extractCodeBlocks(f.arg), <<>>)>>
    ELSE <<>>

\* variant of NextIndex: the loop does not move on
NextIndexStuck(f) == f.i

\* for (const x of xs), for (i++) and regex.exec with the g flag: the next
\* iteration starts after the element (the match) of this one
NextIndex(f) == f.i + 1

\* chunkIntelligently is called on a text: the first loop is entered
InitLoops ==
    /\ IdleRuns
    /\ status = [d \in Documents |-> "processing"]
    /\ startStatus = [r \in Runs |-> [d \in Documents |-> "pending"]]
    /\ pending = {}
    /\ req = [r \in Runs |-> NoReq]
    /\ embedCalls = [r \in Runs |-> 0]
    /\ writes = [r \in Runs |-> <<>>]
    /\ docText \in LoopTexts
    /\ docType \in ContentTypes
    /\ docMime = "text/plain"
    /\ chunks = [r \in Runs |-> <<>>]
    /\ config = [r \in Runs |-> getConfig(2500000, docType)]
    /\ bat = [r \in Runs |-> [b \in BatchIds |-> NoBatch]]
    /\ cp = [r \in Runs |-> NoPromises]
    /\ pc = [r \in Runs |-> IF r = 1 THEN "chunking" ELSE "idle"]
    /\ frames = <<EnterChunkIntelligently(docText, docType)>>

Front(q) == SubSeq(q, 1, Len(q) - 1)

\* one iteration of the innermost loop: its element is consumed and the
\* method the body calls for it, if any, is entered
Iterate(r) ==
    /\ pc[r] = "chunking"
    /\ frames # <<>>
    /\ LET f == Last(frames)
       IN  /\ f.i <= Len(f.items)
           /\ frames' = Front(frames) \o <<[f EXCEPT !.i = NextIndex(f)]>> \o Callee(f, config[r])
    /\ UNCHANGED <<status, rows, pending, pc, req, startStatus, sel, upd, docText, docType,
                   docMime, textLength, delays, analysis, procVars, err, writes, resp>>

\* the innermost loop has no element left: the method goes on to its next
\* loop or returns; when the outermost method returns, chunkIntelligently
\* returns the chunks
LoopEnds(r) ==
    /\ pc[r] = "chunking"
    /\ frames # <<>>
    /\ LET f == Last(frames)
           rest == Front(frames) \o Continuation(f)
       IN  /\ f.i > Len(f.items)
           /\ frames' = rest
           /\ IF rest = <<>>
              THEN /\ pc' = [pc EXCEPT ![r] = "chunked"]
                   /\ chunks' = [chunks EXCEPT ![r] =
                                    chunkIntelligently(docText, docType, config[r])]
              ELSE UNCHANGED <<pc, chunks>>
    /\ UNCHANGED <<status, rows, pending, req, startStatus, sel, upd, docText, docType,
                   docMime, textLength, delays, analysis, config, groupIndex, processedCount, bat, cp,
                   embedCalls, faults, err, writes, resp>>

NextLoops == \E r \in Runs : Iterate(r) \/ LoopEnds(r)

\* the loops run in one task of the event loop; no iteration waits for
\* anything but the tokenizer, which always answers
SpecLoops == InitLoops /\ [][NextLoops]_vars /\ WF_vars(NextLoops)

(***************************************************************************)
(* Properties                                                              *)
(***************************************************************************)
Range(q) == {q[i] : i \in 1..Len(q)}

\* rows of run r with chunk_index i
RowsAt(r, i) == {row \in BagToSet(rows) : row.run = r /\ row.chunk_index = i}

\* number of rows of run r with chunk_index i
RowCount(r, i) == SumOver(RowsAt(r, i), [row \in RowsAt(r, i) |-> CopiesIn(row, rows)])

\* number of attempts of a batch that have failed
FailedAttempts(bt) ==
    IF bt.phase \in {"backoff", "exhausted"} THEN bt.attempt
    ELSE IF bt.phase \in {"running", "ok"} THEN bt.attempt - 1
    ELSE 0

C3_CompletedHasAllChunks ==
    \A r \in Runs :
        "completed" \in Range(writes[r]) =>
            \A p \in 0..(N(r) - 1) : RowsAt(r, p) # {}

C3_Witness ==
    \E r \in Runs :
        /\ "completed" \in Range(writes[r])
        /\ status["d1"] = "completed"
        /\ N(r) = MaxChunks
        /\ NumGroups(r) > 1
        /\ \A p \in 0..(N(r) - 1) : RowsAt(r, p) # {}

\* C4 (as claimed): after a run has completed, its rows carry each
\* chunk_index of 0..N-1 exactly once.
C4_ExactlyOnce ==
    \A r \in Runs :
        "completed" \in Range(writes[r]) =>
            /\ \A p \in 0..(N(r) - 1) : RowCount(r, p) = 1
            /\ \A row \in BagToSet(rows) : row.run = r => row.chunk_index \in 0..(N(r) - 1)

\* C5: the chunk_index of every row is the position in the chunker's output
\* of the chunk it carries, and every started promise (group g, batch j of
\* the group, offset k) works on position (g*M + j)*B + k.
C5_IndexIsPosition ==
    /\ \A row \in BagToSet(rows) : row.chunk_index = row.pos
    /\ \A r \in Runs : \A b \in BatchIds : \A k \in ChunkIds :
          (bat[r][b].phase # "none" /\ k < Len(bat[r][b].items)) =>
              LET g == b \div M(r)
                  j == b % M(r)
              IN  bat[r][b].items[k + 1] = (g * M(r) + j) * B(r) + k

C5_Witness ==
    \E row \in BagToSet(rows) :
        /\ row.chunk_index = MaxChunks - 1
        /\ row.pos = MaxChunks - 1
        /\ groupIndex[row.run] > 0
        /\ B(row.run) > 1

C7_RetryCeilingAndBackoff ==
    \A r \in Runs :
        /\ \A b \in BatchIds :
              /\ bat[r][b].attempt <= 3
              /\ bat[r][b].phase = "exhausted" => bat[r][b].attempt = 3
              /\ Len(bat[r][b].waits) = Min(FailedAttempts(bat[r][b]), 2)
              /\ Len(bat[r][b].waits) >= 1 => bat[r][b].waits[1] = 1000
              /\ Len(bat[r][b].waits) >= 2 => bat[r][b].waits[2] = 2000
        /\ (pc[r] = "catch" /\ bat[r][0].phase # "none") =>
              \E b \in BatchIds : FailedAttempts(bat[r][b]) = 3

C7_Witness ==
    \E r \in Runs : \E b \in BatchIds :
        /\ bat[r][b].phase = "exhausted"
        /\ bat[r][b].attempt = 3
        /\ bat[r][b].waits = <<1000, 2000>>
        /\ pc[r] = "catch"

\* C8 (as claimed): a run whose {documentId, projectId} pair resolves to no
\* document ends with an error and leaves every documents row as it was when
\* the trigger arrived.
C8_NotFoundWritesNothing ==
    \A r \in Runs :
        (/\ pc[r] = "done"
         /\ req[r].apiKey
         /\ req[r].documentId # NoId
         /\ req[r].projectId # NoId
         /\ SelectDocument(req[r].documentId, req[r].projectId) = {}) =>
            /\ resp[r].kind = "error"
            /\ status = startStatus[r]

C10_TokenBound ==
    \A r \in Runs : \A i \in 1..Len(chunks[r]) :
        chunks[r][i].tokens <= config[r].MAX_CHUNK_TOKENS

\* C11 (as claimed): a run whose chunker has produced a chunk above the hard
\* token ceiling makes no embedding call and inserts no row, and ends with
\* the document 'failed'.
C11_OversizedAbortsBeforeEmbedding ==
    \A r \in Runs :
        oversizedChunks(chunks[r]) # {} =>
            /\ embedCalls[r] = 0
            /\ \A row \in BagToSet(rows) : row.run # r
            /\ pc[r] = "done" => status["d1"] = "failed"

\* the contents of a list of chunks, one after the other
RECURSIVE AllContent(_)
AllContent(cs) == IF cs = <<>> THEN <<>> ELSE Head(cs).content \o AllContent(Tail(cs))

\* a sequence of parts without the parts that occurred earlier in it (the
\* overlap carried over from an earlier chunk)
RECURSIVE RemoveOverlap(_, _)
RemoveOverlap(q, seen) ==
    IF q = <<>> THEN <<>>
    ELSE IF Head(q) \in seen THEN RemoveOverlap(Tail(q), seen)
    ELSE <<Head(q)>> \o RemoveOverlap(Tail(q), seen \cup {Head(q)})

\* C12 (as claimed): the chunks of a text, concatenated in index order with
\* the carried-over overlap removed, are the units of the text in input
\* order, none dropped.
C12_Coverage ==
    \A r \in Runs :
        pc[r] = "chunked" =>
            RemoveOverlap(AllContent(chunks[r]), {}) = Flatten(Sections(docText))

\* the iterations and returns the loops in progress still have to make:
\* for each frame, its return, the loop that follows it in its method, and
\* for each element left one iteration and the loops that iteration enters
RECURSIVE FrameWork(_, _), ItemsWork(_, _, _), StackWork(_, _)
ItemsWork(f, j, cfg) ==
    IF j > Len(f.items) THEN 0
    ELSE 1 + StackWork(Callee([f EXCEPT !.i = j], cfg), cfg) + ItemsWork(f, j + 1, cfg)
FrameWork(f, cfg) == 1 + StackWork(Continuation(f), cfg) + ItemsWork(f, f.i, cfg)
StackWork(fs, cfg) ==
    IF fs = <<>> THEN 0 ELSE FrameWork(Head(fs), cfg) + StackWork(Tail(fs), cfg)

C14_ConfigMonotone ==
    \A r1 \in Runs, r2 \in Runs :
        (pc[r1] = "configured" /\ pc[r2] = "configured" /\ textLength[r1] <= textLength[r2]) =>
            /\ config[r1].BATCH_SIZE <= config[r2].BATCH_SIZE
            /\ config[r1].MAX_PARALLEL_BATCHES <= config[r2].MAX_PARALLEL_BATCHES
            /\ config[r1].MAX_CHUNK_TOKENS <= config[r2].MAX_CHUNK_TOKENS

\* C15 (as claimed): for a natural-language text of 600,000 characters
\* getConfig returns the medium tier: BALANCED, 350 tokens per chunk, batch
\* size 8, 3 parallel batches.
C15_MediumTierAt600K ==
    \A r \in Runs :
        (pc[r] = "configured" /\ textLength[r] = 600000 /\ docType = "NATURAL_LANGUAGE") =>
            /\ config[r].PROCESSING_STRATEGY = "BALANCED"
            /\ config[r].MAX_CHUNK_TOKENS = 350
            /\ config[r].BATCH_SIZE = 8
            /\ config[r].MAX_PARALLEL_BATCHES = 3

\* C15 (amended): for a natural-language text of 600,000 characters
\* getConfig returns the large tier: SPEED_OPTIMIZED, 300 tokens per chunk,
\* batch size 12, 4 parallel batches.
C15_LargeTierAt600K ==
    \A r \in Runs :
        (pc[r] = "configured" /\ textLength[r] = 600000 /\ docType = "NATURAL_LANGUAGE") =>
            /\ config[r].PROCESSING_STRATEGY = "SPEED_OPTIMIZED"
            /\ config[r].MAX_CHUNK_TOKENS = 300
            /\ config[r].BATCH_SIZE = 12
            /\ config[r].MAX_PARALLEL_BATCHES = 4

C15_Witness ==
    \E r \in Runs :
        /\ pc[r] = "configured"
        /\ textLength[r] = 600000
        /\ docType = "NATURAL_LANGUAGE"
        /\ config[r].BATCH_DELAY_MS = 200

\* C16 (as claimed): a run on a document whose declared MIME type is not
\* one of the four supported types ends with an error, with the document
\* 'failed' and without a chunk row.
C16_UnsupportedTypeFails ==
    \A r \in Runs :
        (pc[r] = "done" /\ "processing" \in Range(writes[r]) /\ docMime \notin SupportedMimes) =>
            /\ resp[r].kind = "error"
            /\ status["d1"] = "failed"
            /\ \A row \in BagToSet(rows) : row.run # r

\* number of document_chunks rows inserted by run r
RowsInserted(r) ==
    LET mine == {row \in BagToSet(rows) : row.run = r}
    IN  SumOver(mine, [row \in mine |-> CopiesIn(row, rows)])

\* C17 (as claimed): when a run has answered with chunksCreated, the value
\* processAllChunks returned, and every request the run issued has settled,
\* chunksCreated is the number of rows the run has inserted.
C17_CountIsRowsInserted ==
    \A r \in Runs :
        ( /\ pc[r] = "done"
          /\ resp[r].kind = "ok"
          /\ \A t \in PromiseIds : cp[r][t] \notin {"embedding", "inserting"} ) =>
            resp[r].chunksCreated = RowsInserted(r)

\* C18 (as claimed): a run triggered for a document that has rows of an
\* earlier run clears them before it inserts a row of its own; the runs of
\* SpecRerun follow one another, so the rows of two of them never coexist.
C18_RerunClearsRows ==
    \A r \in Runs, q \in Runs :
        (r # q /\ RowsInserted(r) > 0) => RowsInserted(q) = 0

\* C19: nothing enforces single-flight per document.  Whatever the other
\* runs have done and whatever the status of the document is, the start
\* step can take an outstanding trigger for d1 on to the select and the
\* 'processing' update; and every status a run writes becomes the status
\* of the document, so the terminal status written last is the final one.
C19_NoSingleFlight ==
    /\ [](\A r \in pending : ENABLED (POST(r) /\ pc'[r] = "fetch" /\ req'[r].documentId = "d1"))
    /\ [][\A r \in Runs : writes'[r] # writes[r] =>
              status'["d1"] = writes'[r][Len(writes'[r])]]_vars

\* two runs for d1, each started before the other had written a terminal
\* status, have both inserted a row with chunk_index 0; one has written
\* 'completed', the other has written 'failed' after it, and d1 is 'failed'
C19_Witness ==
    \E r \in Runs, q \in Runs :
        /\ r # q
        /\ pc[r] = "done" /\ pc[q] = "done"
        /\ startStatus[r]["d1"] \in {"pending", "processing"}
        /\ startStatus[q]["d1"] \in {"pending", "processing"}
        /\ RowsAt(r, 0) # {} /\ RowsAt(q, 0) # {}
        /\ \A row \in RowsAt(r, 0) \cup RowsAt(q, 0) : row.document_id = "d1"
        /\ writes[r] = <<"processing", "completed">>
        /\ writes[q] = <<"processing", "failed">>
        /\ status["d1"] = "failed"

\* C20: the statuses a run writes are, in order, 'processing' and then at
\* most one of 'completed' and 'failed': never both terminal statuses, and
\* nothing after the terminal one.
C20_OneTerminalStatus ==
    \A r \in Runs :
        writes[r] \in { <<>>, <<"processing">>, <<"processing", "completed">>,
                        <<"processing", "failed">> }

\* a run has written 'completed' after a failed attempt and a retry, has
\* returned, and has no request under way
C20_Witness ==
    \E r \in Runs :
        /\ pc[r] = "done"
        /\ writes[r] = <<"processing", "completed">>
        /\ faults[r] > 0
        /\ \A t \in PromiseIds : cp[r][t] \notin {"embedding", "inserting"}

\* C21: a step that changes the status of a document is a step of POST (the
\* run records the status among its writes, and the step starts no batch,
\* settles no chunk promise and stores no row), and no step removes or
\* replaces a document_chunks row: every row stays, with its copies.
C21_FrameOfWrites ==
    [][ /\ status' # status =>
              /\ cp' = cp /\ bat' = bat /\ rows' = rows
              /\ \E r \in Runs :
                    /\ Len(writes'[r]) = Len(writes[r]) + 1
                    /\ status' = UpdateStatus(status, req[r].documentId,
                                              writes'[r][Len(writes'[r])])
        /\ \A row \in BagToSet(rows) : CopiesIn(row, rows') >= CopiesIn(row, rows)
      ]_vars

\* the run has failed and written 'failed', its chunk promises have stored
\* rows, nothing is under way any more, and the document is 'failed'
C21_Witness ==
    \E r \in Runs :
        /\ pc[r] = "done"
        /\ writes[r] = <<"processing", "failed">>
        /\ status["d1"] = "failed"
        /\ RowsInserted(r) > 0
        /\ \A t \in PromiseIds : cp[r][t] \notin {"embedding", "inserting"}

\* batches of run r that have entered processBatchWithRetries, and those
\* that have not returned from it
StartedBatches(r) == {b \in BatchIds : bat[r][b].phase # "none"}
InFlightBatches(r) == {b \in BatchIds : bat[r][b].phase \in {"running", "backoff"}}

\* C22: batch b is the slice of the chunk list from b * BATCH_SIZE up to
\* BATCH_SIZE chunks, and a run that returns has started all of them;
\* batch b is in group b \div MAX_PARALLEL_BATCHES; a batch of a later
\* group has started only if every batch of the earlier groups has
\* returned successfully; the batches in flight are all in one group and
\* are at most MAX_PARALLEL_BATCHES.
C22_GroupsInSequence ==
    \A r \in Runs :
        /\ \A b \in StartedBatches(r) :
              bat[r][b].items = Slice(b * B(r), Min(b * B(r) + B(r), N(r)))
        /\ pc[r] = "complete" =>
              StartedBatches(r) = 0..(((N(r) + B(r) - 1) \div B(r)) - 1)
        /\ \A b \in StartedBatches(r), c \in StartedBatches(r) :
              c \div M(r) > b \div M(r) => bat[r][b].phase = "ok"
        /\ \A b \in InFlightBatches(r), c \in InFlightBatches(r) :
              b \div M(r) = c \div M(r)
        /\ Cardinality(InFlightBatches(r)) <= M(r)

\* the two batches of group 0 have returned after a retry and the batch
\* of group 1 is in flight
C22_Witness ==
    \E r \in Runs :
        /\ M(r) = 2 /\ B(r) = 1 /\ N(r) = 3
        /\ bat[r][0].phase = "ok" /\ bat[r][0].attempt = 2
        /\ bat[r][1].phase = "ok"
        /\ bat[r][2].phase \in {"running", "backoff"}

\* C23: of the delays computed in a run (one strategy), the one for the
\* higher rate is not the longer, and none exceeds BATCH_DELAY_MS of the
\* configuration; a delay is computed, and awaited, only after a group
\* that is not the last.
C23_AdaptiveDelay ==
    \A r \in Runs :
        /\ \A i \in 1..Len(delays[r]) :
              /\ delays[r][i].ms <= config[r].BATCH_DELAY_MS
              /\ delays[r][i].groupIndex < NumGroups(r) - 1
              /\ \A j \in 1..Len(delays[r]) :
                    delays[r][i].rate <= delays[r][j].rate =>
                        delays[r][i].ms >= delays[r][j].ms
        /\ Len(delays[r]) <= Max(NumGroups(r), 1) - 1
        /\ pc[r] = "delay" => groupIndex[r] < NumGroups(r) - 1

\* a run of three groups under MAXIMUM_THROUGHPUT has returned: 100 ms
\* after group 0 at 30 chunks per second, no delay after group 1 at 31
C23_Witness ==
    \E r \in Runs :
        /\ pc[r] = "complete"
        /\ config[r].PROCESSING_STRATEGY = "MAXIMUM_THROUGHPUT"
        /\ delays[r] = << [rate |-> 30, ms |-> 100, groupIndex |-> 0],
                          [rate |-> 31, ms |-> 0, groupIndex |-> 1] >>

\* tokens of the content of chunk b that chunk a, the one before it, holds too
CarriedOverTokens(a, b) ==
    LET shared == {p \in Range(b.content) : p \in Range(a.content)}
    IN  SumOver(shared, [p \in shared |-> p.tok])

C25_DecisionRule ==
    \A r \in Runs :
        pc[r] = "analyzed" =>
            LET a == analysis[r]
                isCode == 10 * a.codeScore > 3 * a.totalChars /\ a.codeScore > 2 * a.nlScore
                isNL == /\ ~isCode
                        /\ 10 * a.nlScore > 2 * a.totalChars
                        /\ a.nlScore > 2 * a.codeScore
                isUnknown == /\ ~isCode /\ ~isNL
                             /\ 10 * a.codeScore <= a.totalChars
                             /\ 10 * a.nlScore <= a.totalChars
            IN  /\ (a.type = "CODE") <=> isCode
                /\ (a.type = "NATURAL_LANGUAGE") <=> isNL
                /\ (a.type = "UNKNOWN") <=> isUnknown
                /\ (a.type = "MIXED") <=> (~isCode /\ ~isNL /\ ~isUnknown)
                /\ a.confidence \in 0..1000

\* a sample with codeRatio 0.4 and naturalLanguageRatio 0.2 is MIXED: the
\* code ratio is above its floor but not above twice the other
C25_Witness ==
    \E r \in Runs :
        /\ pc[r] = "analyzed"
        /\ analysis[r].codeScore = 4 /\ analysis[r].nlScore = 2
        /\ analysis[r].totalChars = 10
        /\ analysis[r].type = "MIXED"
        /\ analysis[r].confidence = 700

\* C26 (as claimed): a text that is not empty and whose sentences hold at
\* most MAX_CHUNK_TOKENS tokens together is chunked into exactly one chunk,
\* whatever its classification.
C26_OneChunkWhenAllFits ==
    \A r \in Runs :
        ( /\ pc[r] = "chunked"
          /\ Flatten(Sections(docText)) # <<>>
          /\ getAccurateTokenCount(Flatten(Sections(docText))) <= config[r].MAX_CHUNK_TOKENS ) =>
            Len(chunks[r]) = 1

\* C27 (as claimed): once a run has written 'failed', it issues no further
\* embedding call and stores no further row.
C27_NothingAfterFailed ==
    [][\A r \in Runs :
          "failed" \in Range(writes[r]) =>
              /\ embedCalls'[r] = embedCalls[r]
              /\ RowsInserted(r)' = RowsInserted(r)]_vars

\* chunk k of batch b of run r was stored by attempt a0, in which another
\* chunk of the batch failed
StoredInFailedAttempt(r, b, k, a0) ==
    /\ cp[r][<<b, k, a0>>] = "done"
    /\ \E k2 \in ChunkIds \ {k} : cp[r][<<b, k2, a0>>] = "failed"

\* C28: a chunk_index has at most 3 rows of a run, and a row
\* that repeats a chunk_index is stored by a re-attempt of the batch, after
\* an earlier attempt in which the insert of that chunk had succeeded while
\* another chunk of the batch failed.
C28_DuplicateByReattempt ==
    [][\A r \in Runs, b \in BatchIds, k \in ChunkIds, a \in Attempts :
          /\ RowCount(r, GlobalIndex(b, k, B(r)))' <= 3
          /\ ( /\ cp[r][<<b, k, a>>] = "inserting"
               /\ cp'[r][<<b, k, a>>] = "done"
               /\ RowCount(r, GlobalIndex(b, k, B(r))) >= 1 ) =>
                 \E a0 \in Attempts : a0 < a /\ StoredInFailedAttempt(r, b, k, a0)]_vars


\* the trigger of run r was rejected at input validation: the API key is
\* not configured, or the parsed body lacks documentId or projectId
RejectedAtValidation(r) ==
    /\ pc[r] # "idle"
    /\ err[r] # "Invalid request body"
    /\ \/ ~req[r].apiKey
       \/ req[r].documentId = NoId
       \/ req[r].projectId = NoId

\* C29: a trigger rejected at input validation is answered with an error
\* response, and the run writes no document status, issues neither the
\* select nor an update, fetches and extracts no file, calls no embedding
\* and stores no row.
C29_RejectedTouchesNothing ==
    \A r \in Runs :
        RejectedAtValidation(r) =>
            /\ pc[r] = "done"
            /\ resp[r] = IF ~req[r].apiKey
                         THEN ErrorResp(500, "OpenAI API key missing")
                         ELSE ErrorResp(400, "Document ID and Project ID required")
            /\ writes[r] = <<>>
            /\ sel[r] = "none" /\ upd[r] = "none"
            /\ textLength[r] = 0
            /\ chunks[r] = <<>>
            /\ embedCalls[r] = 0
            /\ RowsInserted(r) = 0

\* a trigger with a document id and no project id has been answered
C29_Witness ==
    \E r \in Runs :
        /\ RejectedAtValidation(r)
        /\ req[r] = [documentId |-> "d1", projectId |-> NoId, apiKey |-> TRUE]
        /\ resp[r].code = 400
        /\ status["d1"] = "pending"

\* C30: a run returns the success summary only if its 'completed' update
\* took effect; no run has reported success while the stored status of its
\* document is still 'processing'.
C30_SuccessOnlyIfCompleted ==
    \A r \in Runs :
        resp[r].kind = "ok" =>
            /\ "completed" \in Range(writes[r])
            /\ status[req[r].documentId] # "processing"

====
